---- MODULE Spec2Model ----
(***************************************************************************)
(* Model of the ioda observation-data access layer:                        *)
(*   - the round-robin Distribution and its erase (RoundRobin / Distribution)*)
(*   - the read-mode NetcdfIO constructor, ReadVar_any, WriteVar_any,        *)
(*     ObsSpaceContainer::CreateFromFile and ObsSpaceContainer::dump        *)
(*   - the typed ObsSpaceContainer<T> (StoreToDb / LoadFromDb) as driven by *)
(*     the StoreVarSegments / LoadVarSegments helpers of the unit test.     *)
(***************************************************************************)
EXTENDS Integers, Sequences, FiniteSets, TLC

\* ------------------------------------------------------------------------
\* Bounds of the model
\* ------------------------------------------------------------------------
MaxLocs == 3
MaxRanks == 2
MaxRec == 1
MaxErase == 2
MaxVecLen == 2
MaxOps == 2

\* ------------------------------------------------------------------------
\* Generic helpers on sequences
\* ------------------------------------------------------------------------
Range(s) == {s[k] : k \in 1..Len(s)}

NoDup(s) == \A a, b \in 1..Len(s) : a # b => s[a] # s[b]

\* position of the first occurrence of x in s, 0 when absent (std::find)
RECURSIVE FindFrom(_, _, _)
FindFrom(s, x, k) ==
  IF k > Len(s) THEN 0
  ELSE IF s[k] = x THEN k ELSE FindFrom(s, x, k + 1)

Find(s, x) == FindFrom(s, x, 1)

\* s is a subsequence of t (same relative order)
RECURSIVE IsSubSeq(_, _)
IsSubSeq(s, t) ==
  IF s = <<>> THEN TRUE
  ELSE IF t = <<>> THEN FALSE
  ELSE IF Head(s) = Head(t) THEN IsSubSeq(Tail(s), Tail(t))
  ELSE IsSubSeq(s, Tail(t))

\* ------------------------------------------------------------------------
\* State
\* ------------------------------------------------------------------------
VARIABLES
  gnlocs,          \* Distribution: global number of locations
  nproc,           \* Distribution: comm.size()
  group_numbers_,  \* RoundRobin: record id per location, <<>> when absent
  indx_,           \* Distribution: per rank, the owned global indices
  distributed,     \* ranks whose distribution() has run
  eraseCalls       \* per rank, the indices erase() was called with

distVars == <<gnlocs, nproc, group_numbers_, indx_, distributed, eraseCalls>>

VARIABLES
  ctype,           \* ObsSpaceContainer<T>: the element type T of the container
  DataContainer,   \* ObsSpaceContainer<T>: the records, in insertion order
  hist,            \* per key, how the test wrote it (the vector it holds)
  lastCall,        \* arguments and outcome of the last StoreToDb call
  nops,            \* number of store calls made by the test so far
  out              \* what the last LoadFromDb / LoadVarSegments / iteration gave

storeVars == <<ctype, DataContainer, hist, lastCall, nops, out>>

VARIABLES
  file,            \* the input file handed to CreateFromFile
  winbgn,          \* ObsSpaceContainer::winbgn_
  winend,          \* ObsSpaceContainer::winend_
  io,              \* per rank, the NetcdfIO object of the read-mode open
  database,        \* per rank, ObsSpaceContainer::DataContainer after the load
  dumpfile,        \* per rank, the file written by ObsSpaceContainer::dump
  reloaded         \* per rank, the container loaded back from dumpfile

ingestVars == <<file, winbgn, winend, io, database, dumpfile, reloaded>>

VARIABLES
  obsname_,        \* ObsSpace::obsname_, "none" while no ObsSpace exists
  keyOspace_,      \* ObsSpace::keyOspace_, the key of the Fortran-side obs db
  obsdb,           \* the Fortran-side obs db registered under keyOspace_
  ret              \* what the last ObsSpace call gave back

spaceVars == <<obsname_, keyOspace_, obsdb, ret>>

VARIABLES
  dims_attached_to_vars_,  \* ObsIo::dims_attached_to_vars_: variable -> its dimensions
  isDimByNlocs             \* what the last ObsIo::isVarDimByNlocs call gave back

obsIoVars == <<dims_attached_to_vars_, isDimByNlocs>>

vars == <<distVars, storeVars, ingestVars, spaceVars, obsIoVars>>

\* no ObsSpace object is involved in the other specifications
SpaceIdle ==
  /\ obsname_ = "none"
  /\ keyOspace_ = 0
  /\ obsdb = <<>>
  /\ ret = [op |-> "none"]

\* no ObsIo object is involved in the other specifications
ObsIoIdle ==
  /\ dims_attached_to_vars_ = <<>>
  /\ isDimByNlocs = [op |-> "none"]

\* no file is involved in the distribution and typed-container specifications
IngestIdle ==
  /\ file = <<>>
  /\ winbgn = <<>>
  /\ winend = <<>>
  /\ io = <<>>
  /\ database = <<>>
  /\ dumpfile = <<>>
  /\ reloaded = <<>>

\* ------------------------------------------------------------------------
\* Distribution (round robin) and erase
\* ------------------------------------------------------------------------
Ranks(R) == 0..(R - 1)

\* record id of global index i (0-based); each index its own record when
\* no group vector is given
RecordOf(g, i) == IF g = <<>> THEN i ELSE g[i + 1]

RECURSIVE RoundRobinFrom(_, _, _, _, _)
RoundRobinFrom(N, R, r, g, ii) ==
  IF ii >= N THEN <<>>
  ELSE IF RecordOf(g, ii) % R = r
       THEN <<ii>> \o RoundRobinFrom(N, R, r, g, ii + 1)
       ELSE RoundRobinFrom(N, R, r, g, ii + 1)

\* mutant: ownership decided by the global index even when records are given
RoundRobinIgnoringGroups(N, R, r, g) == RoundRobinFrom(N, R, r, <<>>, 0)

\* mutant: the scan over the global indices starts one too late
RoundRobinSkipFirst(N, R, r, g) == RoundRobinFrom(N, R, r, g, 1)

\* the index list rank r of R owns out of N locations
RoundRobin(N, R, r, g) == RoundRobinFrom(N, R, r, g, 0)

\* mutant: erase removes the element and moves the last one into its place
EraseSwapLast(s, i) ==
  LET p == Find(s, i)
  IN IF p = 0 THEN s
     ELSE IF p = Len(s) THEN SubSeq(s, 1, Len(s) - 1)
     ELSE SubSeq(s, 1, p - 1) \o <<s[Len(s)]>> \o SubSeq(s, p + 1, Len(s) - 1)

\* Distribution::erase(index): remove index from the owned list, keep order
DistErase(s, i) ==
  LET p == Find(s, i)
  IN IF p = 0 THEN s
     ELSE SubSeq(s, 1, p - 1) \o SubSeq(s, p + 1, Len(s))

\* the record vectors the model draws from
GroupVectors(N) ==
  {<<>>} \cup {g \in [1..N -> 0..MaxRec] : N > 0}

\* seed inputs of the specification's scenarios
SeedNine == [N |-> 9, R |-> 3, g |-> <<>>]
SeedRecords == [N |-> 10, R |-> 2, g |-> <<0, 0, 0, 1, 1, 2, 2, 2, 2, 3>>]

DistInputs ==
  {[N |-> N, R |-> R, g |-> g] :
      <<N, R, g>> \in {<<n, rr, gg>> \in (0..MaxLocs) \X (1..MaxRanks) \X
                         UNION {GroupVectors(m) : m \in 0..MaxLocs} :
                           gg = <<>> \/ Len(gg) = n}}
  \cup {SeedNine, SeedRecords}

\* the typed container is not used by the distribution specification
StoreIdle ==
  /\ ctype = "int"
  /\ DataContainer = <<>>
  /\ hist = <<>>
  /\ lastCall = [op |-> "none"]
  /\ nops = 0
  /\ out = [op |-> "none"]

InitDist ==
  \E inp \in DistInputs :
    /\ StoreIdle
    /\ SpaceIdle
    /\ ObsIoIdle
    /\ IngestIdle
    /\ gnlocs = inp.N
    /\ nproc = inp.R
    /\ group_numbers_ = inp.g
    /\ indx_ = [r \in Ranks(inp.R) |-> <<>>]
    /\ distributed = {}
    /\ eraseCalls = [r \in Ranks(inp.R) |-> {}]

\* rank r runs RoundRobin::distribution()
Distribute(r) ==
  /\ r \notin distributed
  /\ indx_' = [indx_ EXCEPT ![r] = RoundRobin(gnlocs, nproc, r, group_numbers_)]
  /\ distributed' = distributed \cup {r}
  /\ UNCHANGED <<gnlocs, nproc, group_numbers_, eraseCalls>>
  /\ UNCHANGED <<storeVars, ingestVars, spaceVars, obsIoVars>>

\* number of distinct erase calls made so far, over all ranks
RECURSIVE SumCard(_, _)
SumCard(f, D) ==
  IF D = {} THEN 0
  ELSE LET d == CHOOSE x \in D : TRUE
       IN Cardinality(f[d]) + SumCard(f, D \ {d})

NumEraseCalls == SumCard(eraseCalls, DOMAIN eraseCalls)

\* rank r calls erase(i) for an arbitrary global index
Erase(r, i) ==
  /\ r \in distributed
  /\ \/ i \in eraseCalls[r]
     \/ NumEraseCalls < MaxErase
  /\ indx_' = [indx_ EXCEPT ![r] = DistErase(indx_[r], i)]
  /\ eraseCalls' = [eraseCalls EXCEPT ![r] = @ \cup {i}]
  /\ UNCHANGED <<gnlocs, nproc, group_numbers_, distributed>>
  /\ UNCHANGED <<storeVars, ingestVars, spaceVars, obsIoVars>>

NextDist ==
  \/ \E r \in Ranks(nproc) : Distribute(r)
  \/ \E r \in Ranks(nproc) : \E i \in 0..(gnlocs - 1) : Erase(r, i)

SpecDist == InitDist /\ [][NextDist]_vars

\* ---- claims on the distribution ----------------------------------------
AllDistributed == distributed = Ranks(nproc)

Owned(r) == Range(indx_[r])

StrictlyAscending(s) == \A a, b \in 1..Len(s) : a < b => s[a] < s[b]

\* C2: once every rank has run the distribution (and before any erase), the
\* owned index sets of the ranks are pairwise disjoint, no index is listed
\* twice, and their union is {0..N-1}.
C2_Partition ==
  /\ \A r, q \in distributed :
        (r # q /\ eraseCalls[r] = {} /\ eraseCalls[q] = {})
          => Owned(r) \cap Owned(q) = {}
  /\ \A r \in distributed : NoDup(indx_[r])
  /\ (AllDistributed /\ NumEraseCalls = 0)
        => UNION {Owned(r) : r \in Ranks(nproc)} = 0..(gnlocs - 1)

C2_Witness ==
  /\ AllDistributed /\ NumEraseCalls = 0
  /\ nproc >= 2 /\ gnlocs >= 3
  /\ \A r \in Ranks(nproc) : indx_[r] # <<>>

\* C3: round robin gives global index i to rank g[i] mod R (i mod R without
\* a record vector), so indices of one record share a rank, and each rank
\* lists its indices in ascending order; the two seed cases give the index
\* lists of the specification.
C3_RoundRobinAssignment ==
  /\ \A r \in distributed :
        eraseCalls[r] = {} =>
          /\ Owned(r) = {i \in 0..(gnlocs - 1) :
                           (IF group_numbers_ = <<>> THEN i
                            ELSE group_numbers_[i + 1]) % nproc = r}
          /\ StrictlyAscending(indx_[r])
  /\ (AllDistributed /\ NumEraseCalls = 0 /\ group_numbers_ # <<>>) =>
        \A i, j \in 0..(gnlocs - 1) :
          group_numbers_[i + 1] = group_numbers_[j + 1] =>
            \E r \in Ranks(nproc) : {i, j} \subseteq Owned(r)
  /\ (AllDistributed /\ NumEraseCalls = 0 /\ gnlocs = 9 /\ nproc = 3
        /\ group_numbers_ = <<>>) =>
        indx_ = (0 :> <<0, 3, 6>> @@ 1 :> <<1, 4, 7>> @@ 2 :> <<2, 5, 8>>)
  /\ (AllDistributed /\ NumEraseCalls = 0 /\ nproc = 2
        /\ group_numbers_ = <<0, 0, 0, 1, 1, 2, 2, 2, 2, 3>>) =>
        indx_ = (0 :> <<0, 1, 2, 5, 6, 7, 8>> @@ 1 :> <<3, 4, 9>>)

C3_Witness ==
  /\ AllDistributed /\ NumEraseCalls = 0
  /\ nproc = 2
  /\ group_numbers_ = <<0, 0, 0, 1, 1, 2, 2, 2, 2, 3>>
  /\ Len(indx_[0]) = 7

\* C4: after any erase calls the surviving owned indices keep the relative
\* order they had after the distribution, exactly the erased indices are
\* gone, and the size dropped by one per distinct erased owned index.
C4_EraseStable ==
  \A r \in distributed :
    LET orig == RoundRobin(gnlocs, nproc, r, group_numbers_)
    IN /\ IsSubSeq(indx_[r], orig)
       /\ Owned(r) = Range(orig) \ eraseCalls[r]
       /\ Len(indx_[r]) = Len(orig) - Cardinality(eraseCalls[r] \cap Range(orig))

C4_Witness ==
  \E r \in distributed :
    LET orig == RoundRobin(gnlocs, nproc, r, group_numbers_)
    IN /\ Len(orig) >= 3
       /\ orig[1] \in eraseCalls[r]
       /\ Len(indx_[r]) >= 2
       /\ \E i \in eraseCalls[r] : i \notin Range(orig)

\* ------------------------------------------------------------------------
\* ObsSpaceContainer<T>: StoreToDb / LoadFromDb, and the test helpers
\* StoreVarSegments / LoadVarSegments
\* ------------------------------------------------------------------------
ElemTypes == {"int", "float", "string", "datetime"}

StrVals == <<"s1", "s2", "s3", "s4", "s5", "s6", "s7", "s8">>

\* the k-th test value of element type T (floats in tenths, datetimes in
\* seconds)
Val(T, k) ==
  CASE T = "int" -> k
    [] T = "float" -> 10 * k + 5
    [] T = "string" -> StrVals[k]
    [] T = "datetime" -> 86400 * k + 3600

\* the value the tests pre-fill their output vectors with
Fill(T) ==
  CASE T = "int" -> 0
    [] T = "float" -> 0
    [] T = "string" -> "xx"
    [] T = "datetime" -> 0

\* test vectors: length n, pairwise distinct elements
TestVec(T, n, s) == [j \in 1..n |-> Val(T, s + j)]

\* the vectors of the store/load tests: two of every length
TestVecs(T) == {TestVec(T, n, s) : n \in 0..MaxVecLen, s \in {0, 1}}

\* the vector [a,b,c,d,e] of the segmented-append scenario
SeedVec(T) == TestVec(T, 5, 0)

\* the vectors of the segmented tests
SegVecs(T) == {TestVec(T, n, 0) : n \in 0..MaxVecLen} \cup {SeedVec(T)}

StoreKeys == {<<"MetaData", "a">>, <<"MetaData", "b">>, <<"ObsValue", "a">>}

\* the variable the segmented test writes
SegKeys == {<<"MetaData", "a">>}

RECURSIVE Product(_)
Product(shape) ==
  IF shape = <<>> THEN 1 ELSE Head(shape) * Product(Tail(shape))

\* position of the record with key (g, v) in the container, 0 when absent
\* (DataContainer.find)
RECURSIVE KeyPosFrom(_, _, _, _)
KeyPosFrom(db, g, v, k) ==
  IF k > Len(db) THEN 0
  ELSE IF db[k].group = g /\ db[k].variable = v THEN k
       ELSE KeyPosFrom(db, g, v, k + 1)

KeyPos(db, g, v) == KeyPosFrom(db, g, v, 1)

\* mutant: a store to an existing variable inserts a second record
StoreToDbReinsert(db, g, v, shape, data, append) ==
  LET p == KeyPos(db, g, v)
      rec == [group |-> g, variable |-> v, shape |-> shape, data |-> data]
  IN IF p = 0 \/ ~append
     THEN [ok |-> TRUE, existed |-> p # 0,
           preShape |-> IF p = 0 THEN <<>> ELSE db[p].shape,
           db |-> Append(db, rec)]
     ELSE [ok |-> TRUE, existed |-> TRUE, preShape |-> db[p].shape,
           db |-> [db EXCEPT ![p].shape = <<Head(@) + Head(shape)>> \o Tail(@),
                             ![p].data = @ \o data]]

\* mutant: the first store of a variable drops the last element
StoreToDbDropLast(db, g, v, shape, data, append) ==
  LET p == KeyPos(db, g, v)
      cut == IF data = <<>> THEN data ELSE SubSeq(data, 1, Len(data) - 1)
      rec == [group |-> g, variable |-> v, shape |-> shape, data |-> cut]
  IN IF p = 0
     THEN [ok |-> TRUE, existed |-> FALSE, preShape |-> <<>>,
           db |-> Append(db, rec)]
     ELSE [ok |-> TRUE, existed |-> TRUE, preShape |-> db[p].shape,
           db |-> [db EXCEPT ![p].data = IF append THEN @ \o data ELSE data]]

\* StoreToDb(GroupName, VarName, VarShape, VarData, Append): the first store
\* creates the record; a later store overwrites when the shape matches, or,
\* with Append, grows the leading extent by VarShape[0] (the other extents
\* must match) and appends the data; a mismatch leaves the container as it was
StoreToDb(db, g, v, shape, data, append) ==
  LET p == KeyPos(db, g, v)
      rec == [group |-> g, variable |-> v, shape |-> shape, data |-> data]
  IN IF p = 0
     THEN [ok |-> TRUE, existed |-> FALSE, preShape |-> <<>>,
           db |-> Append(db, rec)]
     ELSE IF append
     THEN IF Tail(shape) = Tail(db[p].shape)
          THEN [ok |-> TRUE, existed |-> TRUE, preShape |-> db[p].shape,
                db |-> [db EXCEPT
                          ![p].shape = <<Head(@) + Head(shape)>> \o Tail(@),
                          ![p].data = @ \o data]]
          ELSE [ok |-> FALSE, existed |-> TRUE, preShape |-> db[p].shape,
                db |-> db]
     ELSE IF shape = db[p].shape
          THEN [ok |-> TRUE, existed |-> TRUE, preShape |-> db[p].shape,
                db |-> [db EXCEPT ![p].data = data]]
          ELSE [ok |-> FALSE, existed |-> TRUE, preShape |-> db[p].shape,
                db |-> db]

\* mutant: the read ignores Start
LoadFromDbNoStart(db, g, v, shape, start, count) ==
  LET p == KeyPos(db, g, v)
  IN IF p = 0 THEN [ok |-> FALSE, data |-> <<>>]
     ELSE [ok |-> TRUE,
           data |-> SubSeq(db[p].data, 1,
                           IF count = 0 THEN Len(db[p].data) ELSE count)]

\* LoadFromDb(GroupName, VarName, VarShape, VarData, Start, Count): read Count
\* entries along the leading axis from Start; Count = 0 stands for the default
\* (everything from Start on)
LoadFromDb(db, g, v, shape, start, count) ==
  LET p == KeyPos(db, g, v)
  IN IF p = 0 THEN [ok |-> FALSE, data |-> <<>>]
     ELSE LET stride == Product(Tail(db[p].shape))
              first == start * stride
              n == IF count = 0 THEN Len(db[p].data) - first
                   ELSE count * stride
          IN IF first < 0 \/ n < 0 \/ first + n > Len(db[p].data)
             THEN [ok |-> FALSE, data |-> <<>>]
             ELSE [ok |-> TRUE,
                   data |-> SubSeq(db[p].data, first + 1, first + n)]

\* ---- segment lists -------------------------------------------------------
RECURSIVE SumSeq(_)
SumSeq(c) == IF c = <<>> THEN 0 ELSE Head(c) + SumSeq(Tail(c))

\* the ways to cut [0..n) into contiguous non-empty segments (their counts)
Compositions(n) ==
  IF n = 0 THEN {<<>>}
  ELSE {c \in UNION {[1..k -> 1..n] : k \in 1..n} : SumSeq(c) = n}

\* Starts[j] = Starts[j-1] + Counts[j-1], the first start is 0
StartsOf(c) == [i \in 1..Len(c) |-> SumSeq(SubSeq(c, 1, i - 1))]

Perms(k) == {p \in [1..k -> 1..k] : \A a, b \in 1..k : a # b => p[a] # p[b]}

\* every partition of [0..n) into contiguous segments, listed in every order
SegLists(n) ==
  UNION {{[Starts |-> [i \in 1..Len(c) |-> StartsOf(c)[p[i]]],
           Counts |-> [i \in 1..Len(c) |-> c[p[i]]]] : p \in Perms(Len(c))} :
         c \in Compositions(n)}

\* the segment lists of the segmented-append scenario (length 5)
SeedStoreSegs == [Starts |-> <<0, 2, 3>>, Counts |-> <<2, 1, 2>>]
SeedLoadSegs == [Starts |-> <<0, 2, 4>>, Counts |-> <<2, 2, 1>>]

\* the segment lists per vector length, computed once
SegTable == [n \in 0..MaxVecLen |-> SegLists(n)]

SegListsFor(n) ==
  IF n <= MaxVecLen THEN SegTable[n] ELSE {SeedStoreSegs, SeedLoadSegs}

AscendingStarts(segs) ==
  \A a, b \in 1..Len(segs.Starts) : a < b => segs.Starts[a] < segs.Starts[b]

\* ---- the test helpers ----------------------------------------------------
RECURSIVE StoreVarSegmentsFrom(_, _, _, _, _, _, _, _, _)
StoreVarSegmentsFrom(db, g, v, VarShape, VarData, Starts, Counts, i, last) ==
  IF i > Len(Starts) THEN [ok |-> TRUE, db |-> db, last |-> last]
  ELSE LET VarSegment == SubSeq(VarData, Starts[i] + 1, Starts[i] + Counts[i])
           r == StoreToDb(db, g, v, VarShape, VarSegment, TRUE)
       IN IF ~r.ok THEN [ok |-> FALSE, db |-> r.db, last |-> r]
          ELSE StoreVarSegmentsFrom(r.db, g, v, VarShape, VarData, Starts,
                                    Counts, i + 1, r)

RECURSIVE StoreVarSegmentsFirstOnlyFrom(_, _, _, _, _, _, _, _, _)
StoreVarSegmentsFirstOnlyFrom(db, g, v, VarShape, VarData, Starts, Counts, i, last) ==
  IF i > Len(Starts) THEN [ok |-> TRUE, db |-> db, last |-> last]
  ELSE LET VarSegment == SubSeq(VarData, 1, Counts[i])
           r == StoreToDb(db, g, v, VarShape, VarSegment, TRUE)
       IN IF ~r.ok THEN [ok |-> FALSE, db |-> r.db, last |-> r]
          ELSE StoreVarSegmentsFirstOnlyFrom(r.db, g, v, VarShape, VarData,
                                             Starts, Counts, i + 1, r)

\* mutant: every segment is cut from the beginning of VarData
StoreVarSegmentsNoStart(db, g, v, VarShape, VarData, Starts, Counts) ==
  StoreVarSegmentsFirstOnlyFrom(db, g, v, VarShape, VarData, Starts, Counts, 1,
                                [ok |-> TRUE, existed |-> FALSE,
                                 preShape |-> <<>>, db |-> db])

\* StoreVarSegments: one StoreToDb(..., VarShape, VarSegment, true) per segment
StoreVarSegments(db, g, v, VarShape, VarData, Starts, Counts) ==
  StoreVarSegmentsFrom(db, g, v, VarShape, VarData, Starts, Counts, 1,
                       [ok |-> TRUE, existed |-> FALSE, preShape |-> <<>>,
                        db |-> db])

\* VarData[Starts[i]+j] = VarSegment[j] for every j
PlaceAt(VarData, start, VarSegment) ==
  [k \in 1..Len(VarData) |->
     IF k > start /\ k <= start + Len(VarSegment)
     THEN VarSegment[k - start] ELSE VarData[k]]

RECURSIVE LoadVarSegmentsFrom(_, _, _, _, _, _, _, _)
LoadVarSegmentsFrom(db, g, v, VarShape, VarData, Starts, Counts, i) ==
  IF i > Len(Starts) THEN [ok |-> TRUE, data |-> VarData]
  ELSE LET r == LoadFromDb(db, g, v, VarShape, Starts[i], Counts[i])
       IN IF ~r.ok \/ Starts[i] + Len(r.data) > Len(VarData)
          THEN [ok |-> FALSE, data |-> VarData]
          ELSE LoadVarSegmentsFrom(db, g, v, VarShape,
                                   PlaceAt(VarData, Starts[i], r.data),
                                   Starts, Counts, i + 1)

\* mutant: every loaded segment is placed at the front of VarData
RECURSIVE LoadVarSegmentsFrontFrom(_, _, _, _, _, _, _, _)
LoadVarSegmentsFrontFrom(db, g, v, VarShape, VarData, Starts, Counts, i) ==
  IF i > Len(Starts) THEN [ok |-> TRUE, data |-> VarData]
  ELSE LET r == LoadFromDb(db, g, v, VarShape, Starts[i], Counts[i])
       IN IF ~r.ok \/ Len(r.data) > Len(VarData)
          THEN [ok |-> FALSE, data |-> VarData]
          ELSE LoadVarSegmentsFrontFrom(db, g, v, VarShape,
                                        PlaceAt(VarData, 0, r.data),
                                        Starts, Counts, i + 1)

LoadVarSegmentsFront(db, g, v, VarShape, VarData, Starts, Counts) ==
  LoadVarSegmentsFrontFrom(db, g, v, VarShape, VarData, Starts, Counts, 1)

\* LoadVarSegments: one LoadFromDb(..., Starts[i], Counts[i]) per segment,
\* each copied to VarData at its start
LoadVarSegments(db, g, v, VarShape, VarData, Starts, Counts) ==
  LoadVarSegmentsFrom(db, g, v, VarShape, VarData, Starts, Counts, 1)

\* mutant: the walk stops one record before var_iter_end
VarIterSkipLast(db) ==
  [k \in 1..(IF Len(db) = 0 THEN 0 ELSE Len(db) - 1) |->
     <<db[k].group, db[k].variable, db[k].shape>>]

\* the walk from var_iter_begin() to var_iter_end(): group name, variable
\* name and shape of every record
VarIter(db) ==
  [k \in 1..Len(db) |-> <<db[k].group, db[k].variable, db[k].shape>>]

\* ---- the typed container as driven by the tests ---------------------------
\* the distribution is not used by the container specifications
DistIdle ==
  /\ gnlocs = 0
  /\ nproc = 1
  /\ group_numbers_ = <<>>
  /\ indx_ = <<>>
  /\ distributed = {}
  /\ eraseCalls = <<>>

InitStore ==
  /\ DistIdle
  /\ IngestIdle
  /\ SpaceIdle
  /\ ObsIoIdle
  /\ ctype \in ElemTypes
  /\ DataContainer = <<>>
  /\ hist = [k \in StoreKeys |-> [kind |-> "absent"]]
  /\ lastCall = [op |-> "none"]
  /\ nops = 0
  /\ out = [op |-> "none"]

\* the shapes a test passes with a vector: its length, or rows of two
ShapesFor(data) ==
  {<<Len(data)>>} \cup
  (IF Len(data) > 0 /\ Len(data) % 2 = 0 THEN {<<Len(data) \div 2, 2>>} ELSE {})

CallRecord(name, key, shape, append, r) ==
  [op |-> name, key |-> key, shape |-> shape, append |-> append,
   ok |-> r.ok, existed |-> r.existed, preShape |-> r.preShape]

\* Container->StoreToDb(GroupName, VarName, VarShape, VarData [, Append])
StoreToDbCall(key, shape, data, append) ==
  LET r == StoreToDb(DataContainer, key[1], key[2], shape, data, append)
  IN /\ nops < MaxOps
     /\ nops' = nops + 1
     /\ DataContainer' = r.db
     /\ lastCall' = CallRecord("StoreToDb", key, shape, append, r)
     /\ hist' = IF ~r.ok THEN hist
                ELSE IF append /\ r.existed
                THEN [hist EXCEPT ![key] = [kind |-> "mixed"]]
                ELSE [hist EXCEPT ![key] =
                        [kind |-> "whole", vec |-> data, shape |-> shape]]
     /\ out' = [op |-> "none"]
     /\ UNCHANGED <<ctype, distVars, ingestVars, spaceVars, obsIoVars>>

\* StoreVarSegments(GroupName, VarName, VarShape, VarData, Starts, Counts, ..)
\* with VarShape[0] = VarData.size()
StoreVarSegmentsCall(key, data, segs) ==
  LET shape == <<Len(data)>>
      r == StoreVarSegments(DataContainer, key[1], key[2], shape, data,
                            segs.Starts, segs.Counts)
  IN /\ nops < MaxOps
     /\ nops' = nops + 1
     /\ DataContainer' = r.db
     /\ lastCall' = IF Len(segs.Starts) = 0 THEN lastCall
                    ELSE CallRecord("StoreVarSegments", key, shape, TRUE, r.last)
     /\ hist' = IF Len(segs.Starts) = 0 THEN hist
                ELSE IF hist[key].kind = "absent" /\ r.ok
                THEN [hist EXCEPT ![key] =
                        [kind |-> "segs", vec |-> data,
                         nsegs |-> Len(segs.Starts),
                         ascending |-> AscendingStarts(segs)]]
                ELSE [hist EXCEPT ![key] = [kind |-> "mixed"]]
     /\ out' = [op |-> "none"]
     /\ UNCHANGED <<ctype, distVars, ingestVars, spaceVars, obsIoVars>>

\* Container->LoadFromDb(GroupName, VarName, VarShape, VarData) with the
\* default Start and Count
LoadFromDbCall(key) ==
  LET shape == IF hist[key].kind = "whole" THEN hist[key].shape ELSE <<1>>
      r == LoadFromDb(DataContainer, key[1], key[2], shape, 0, 0)
  IN /\ out' = [op |-> "LoadFromDb", key |-> key, ok |-> r.ok, data |-> r.data]
     /\ UNCHANGED <<ctype, DataContainer, hist, lastCall, nops, distVars,
                  ingestVars, spaceVars, obsIoVars>>

\* the length of the vector the test expects to read back for key
ExpectedLen(key) ==
  IF hist[key].kind \in {"whole", "segs"} THEN Len(hist[key].vec) ELSE 1

\* LoadVarSegments(GroupName, VarName, VarShape, VarData, Starts, Counts, ..)
\* into a pre-filled VarData of the expected length
LoadVarSegmentsCall(key, segs) ==
  LET n == ExpectedLen(key)
      r == LoadVarSegments(DataContainer, key[1], key[2], <<n>>,
                           [j \in 1..n |-> Fill(ctype)],
                           segs.Starts, segs.Counts)
  IN /\ out' = [op |-> "LoadVarSegments", key |-> key, Starts |-> segs.Starts,
                Counts |-> segs.Counts, ok |-> r.ok, data |-> r.data]
     /\ UNCHANGED <<ctype, DataContainer, hist, lastCall, nops, distVars,
                  ingestVars, spaceVars, obsIoVars>>

\* for (ivar = var_iter_begin(); ivar != var_iter_end(); ivar++)
IterateVars ==
  /\ out' = [op |-> "VarIter", data |-> VarIter(DataContainer)]
  /\ UNCHANGED <<ctype, DataContainer, hist, lastCall, nops, distVars,
                  ingestVars, spaceVars, obsIoVars>>

\* testGrpVarIter / testStoreLoad: whole-vector stores, loads and the walk
NextStore ==
  \/ \E key \in StoreKeys : \E data \in TestVecs(ctype) :
       \E shape \in ShapesFor(data) : \E append \in BOOLEAN :
         StoreToDbCall(key, shape, data, append)
  \/ \E key \in StoreKeys : LoadFromDbCall(key)
  \/ IterateVars

SpecStore == InitStore /\ [][NextStore]_vars

\* testSegmentedStoreLoad: one variable written and read back in segments
NextSeg ==
  \/ \E key \in SegKeys : \E data \in SegVecs(ctype) :
       \E segs \in SegListsFor(Len(data)) :
         StoreVarSegmentsCall(key, data, segs)
  \/ \E key \in SegKeys : \E data \in SegVecs(ctype) :
       \E shape \in ShapesFor(data) :
         StoreToDbCall(key, shape, data, TRUE)
  \/ \E key \in SegKeys : \E segs \in SegListsFor(ExpectedLen(key)) :
       LoadVarSegmentsCall(key, segs)

SpecSeg == InitStore /\ [][NextSeg]_vars

\* ------------------------------------------------------------------------
\* Properties of the typed container
\* ------------------------------------------------------------------------
\* the record of key in the container
RecordAt(key) == DataContainer[KeyPos(DataContainer, key[1], key[2])]

\* C6: a vector stored whole under a key is what LoadFromDb with the default
\* start and count reads back for that key, element by element, for every
\* element type and whatever was stored under other keys in between
C6_StoreThenLoad ==
  (out.op = "LoadFromDb" /\ hist[out.key].kind = "whole")
    => (out.ok /\ out.data = hist[out.key].vec)

C6_Witness ==
  /\ out.op = "LoadFromDb"
  /\ out.ok
  /\ ctype = "datetime"
  /\ hist[out.key].kind = "whole"
  /\ Len(hist[out.key].vec) = MaxVecLen
  /\ Len(DataContainer) >= 2
  /\ KeyPos(DataContainer, out.key[1], out.key[2]) = 1

\* C7: a vector appended as contiguous segments in ascending start order is
\* reproduced by loading it over any partition into contiguous segments and
\* placing every piece at its start
C7_SegmentedAppendLoad ==
  (/\ out.op = "LoadVarSegments"
   /\ hist[out.key].kind = "segs"
   /\ hist[out.key].ascending)
    => (out.ok /\ out.data = hist[out.key].vec)

C7_Witness ==
  /\ out.op = "LoadVarSegments"
  /\ out.ok
  /\ hist[out.key].kind = "segs"
  /\ hist[out.key].ascending
  /\ hist[out.key].nsegs = 3
  /\ hist[out.key].vec = SeedVec(ctype)
  /\ out.Starts = SeedLoadSegs.Starts
  /\ out.data = SeedVec(ctype)

\* C8 as stated: storing the segments of a partition in any order leaves the
\* same buffer as one whole-range store of the vector
C8_AnyOrder ==
  \A key \in SegKeys :
    hist[key].kind = "segs" => RecordAt(key).data = hist[key].vec

\* C8 amended: storing the segments of a partition in ascending start order
\* leaves the same element sequence as one whole-range store of the vector
C8_AscendingOrder ==
  \A key \in SegKeys :
    (hist[key].kind = "segs" /\ hist[key].ascending)
      => RecordAt(key).data = hist[key].vec

C8_Witness ==
  \E key \in SegKeys :
    /\ hist[key].kind = "segs"
    /\ hist[key].ascending
    /\ hist[key].nsegs >= 2
    /\ Len(hist[key].vec) >= 2
    /\ RecordAt(key).data = hist[key].vec

\* C9 as stated: an append grows the leading extent by the passed shape[0]
\* with the other extents matching, and after StoreVarSegments the stored
\* variable has the shape and the length of the original vector
C9_AppendKeepsShape ==
  /\ (/\ lastCall.op # "none"
      /\ lastCall.ok
      /\ lastCall.append
      /\ lastCall.existed)
       => (/\ Tail(lastCall.shape) = Tail(lastCall.preShape)
           /\ RecordAt(lastCall.key).shape =
                <<Head(lastCall.preShape) + Head(lastCall.shape)>>
                  \o Tail(lastCall.preShape))
  /\ \A key \in SegKeys :
       hist[key].kind = "segs"
         => (/\ RecordAt(key).shape = <<Len(hist[key].vec)>>
             /\ Len(RecordAt(key).data) = Len(hist[key].vec))

DaysFromCivil(y, m, d) ==
  LET yy == IF m <= 2 THEN y - 1 ELSE y
      era == yy \div 400
      yoe == yy - era * 400
      mp == IF m > 2 THEN m - 3 ELSE m + 9
      doy == (153 * mp + 2) \div 5 + d - 1
      doe == yoe * 365 + yoe \div 4 - yoe \div 100 + doy
  IN era * 146097 + doe - 719468

\* the civil date <<y, m, d>> of a day number
CivilFromDays(z) ==
  LET zz == z + 719468
      era == zz \div 146097
      doe == zz - era * 146097
      yoe == (doe - doe \div 1460 + doe \div 36524 - doe \div 146096) \div 365
      doy == doe - (365 * yoe + yoe \div 4 - yoe \div 100)
      mp == (5 * doy + 2) \div 153
      d == doy - (153 * mp + 2) \div 5 + 1
      m == IF mp < 10 THEN mp + 3 ELSE mp - 9
  IN <<yoe + era * 400 + (IF m <= 2 THEN 1 ELSE 0), m, d>>

SecondsPerDay == 86400

\* datetime_setints_f(&dt, yyyymmdd, seconds)
DateTimeOfInts(yyyymmdd, seconds) ==
  [day |-> DaysFromCivil(yyyymmdd \div 10000, (yyyymmdd \div 100) % 100,
                         yyyymmdd % 100),
   sec |-> seconds]

\* DateTime + Duration(seconds)
DateTimePlus(dt, seconds) ==
  LET total == dt.sec + seconds
  IN [day |-> dt.day + total \div SecondsPerDay, sec |-> total % SecondsPerDay]

\* mutant: equal timestamps compare as less
DateTimeLessOrSame(a, b) == a.day < b.day \/ (a.day = b.day /\ a.sec <= b.sec)

\* operator< and operator<= of DateTime
DateTimeLess(a, b) == a.day < b.day \/ (a.day = b.day /\ a.sec < b.sec)

DateTimeLeq(a, b) == a = b \/ DateTimeLess(a, b)

\* toYYYYMMDDhhmmss: <<Year, Month, Day, Hour, Minute, Second>>
ToYYYYMMDDhhmmss(dt) ==
  LET c == CivilFromDays(dt.day)
  IN <<c[1], c[2], c[3], dt.sec \div 3600, (dt.sec % 3600) \div 60, dt.sec % 60>>

\* ---- numbers -------------------------------------------------------------
\* static const double missingthreshold = 1.0e08
missingthreshold == 100000000

\* util::missingValue(float): a large negative float, here the most negative
\* float of the model's value range
fmiss == -2000000000

RECURSIVE Pow2(_)
Pow2(e) == IF e = 0 THEN 1 ELSE 2 * Pow2(e - 1)

\* binary exponent by which |x| exceeds the 24-bit significand of a float
RECURSIVE ExcessBits(_, _)
ExcessBits(a, e) == IF a < Pow2(24 + e) THEN e ELSE ExcessBits(a, e + 1)

\* static_cast<float>(double): round to the nearest float, ties to even
FloatOfDouble(x) ==
  LET a == IF x < 0 THEN -x ELSE x
      u == Pow2(ExcessBits(a, 0))
      q == a \div u
      rem == a % u
      up == 2 * rem > u \/ (2 * rem = u /\ q % 2 = 1)
      m == (IF up THEN q + 1 ELSE q) * u
  IN IF x < 0 THEN -m ELSE m

\* offsets are kept in tenths of a second (hours * 36000), so that
\* OffsetTime * 3600 need not be a whole number of seconds
TicksPerSecond == 10

\* static_cast<int>(OffsetTime[i] * 3600): truncation toward zero
TruncSeconds(ticks) ==
  IF ticks >= 0 THEN ticks \div TicksPerSecond
  ELSE -((-ticks) \div TicksPerSecond)

\* ---- names ---------------------------------------------------------------
\* std::string as the sequence of its characters
S_time == <<"t", "i", "m", "e">>
S_date == <<"d", "a", "t", "e">>
S_at == <<"@">>
S_MetaData == <<"M", "e", "t", "a", "D", "a", "t", "a">>
S_ObsValue == <<"O", "b", "s", "V", "a", "l", "u", "e">>
S_GroupUndefined ==
  <<"G", "r", "o", "u", "p", "U", "n", "d", "e", "f", "i", "n", "e", "d">>
S_x == <<"x">>
S_y == <<"y">>
S_z == <<"z">>
S_c == <<"c">>
S_p == <<"p">>

\* the characters of the names in ascending character code
Alphabet ==
  <<"@", "D", "G", "M", "O", "U", "V", "a", "b", "c", "d", "e", "f", "i", "l",
    "m", "n", "o", "p", "r", "s", "t", "u", "x", "y", "z">>

\* s.find(t) at position k (0-based), -1 for npos
RECURSIVE StrFindFrom(_, _, _)
StrFindFrom(s, t, k) ==
  IF k + Len(t) > Len(s) THEN -1
  ELSE IF SubSeq(s, k + 1, k + Len(t)) = t THEN k
  ELSE StrFindFrom(s, t, k + 1)

StrFind(s, t) == StrFindFrom(s, t, 0)

\* s.substr(pos) and s.substr(0, n) with n = npos meaning the whole string
SubstrFrom(s, pos) == SubSeq(s, pos + 1, Len(s))

SubstrTo(s, n) == IF n = -1 THEN s ELSE SubSeq(s, 1, n)

\* operator< of std::string
RECURSIVE StrLess(_, _)
StrLess(s, t) ==
  IF t = <<>> THEN FALSE
  ELSE IF s = <<>> THEN TRUE
  ELSE IF Head(s) = Head(t) THEN StrLess(Tail(s), Tail(t))
  ELSE Find(Alphabet, Head(s)) < Find(Alphabet, Head(t))

\* ---- the netcdf file -------------------------------------------------------
\* a file: dims (name, len; the dimension id is the position, from 0), the
\* global attribute date_time when hasDT, and the variables (name, type,
\* dimids, data)
\* nc_inq_dimid: the id of the dimension called name, -1 when there is none
RECURSIVE DimIdFrom(_, _, _)
DimIdFrom(f, name, k) ==
  IF k > Len(f.dims) THEN -1
  ELSE IF f.dims[k].name = name THEN k - 1 ELSE DimIdFrom(f, name, k + 1)

DimId(f, name) == DimIdFrom(f, name, 1)

\* nc_inq_dimlen
DimLen(f, id) == f.dims[id + 1].len

\* nc_inq_varid: the position of the variable called name, 0 when there is none
RECURSIVE VarIdFrom(_, _, _)
VarIdFrom(f, name, k) ==
  IF k > Len(f.vars) THEN 0
  ELSE IF f.vars[k].name = name THEN k ELSE VarIdFrom(f, name, k + 1)

VarId(f, name) == VarIdFrom(f, name, 1)

\* ---- NetcdfIO::NetcdfIO, read mode ----------------------------------------
\* mutant: a file of the old layout is taken to have one variable
ReadDimsNoChans(f, Nlocs) ==
  IF DimId(f, "nrecs") # -1
  THEN [nfvlen |-> DimLen(f, DimId(f, "nlocs")),
        nobs |-> DimLen(f, DimId(f, "nobs")),
        nrecs |-> DimLen(f, DimId(f, "nrecs")),
        nvars |-> DimLen(f, DimId(f, "nvars"))]
  ELSE [nfvlen |-> DimLen(f, DimId(f, "nobs")),
        nobs |-> DimLen(f, DimId(f, "nobs")), nrecs |-> Nlocs, nvars |-> 1]

\* nlocs_, nobs_, nrecs_, nvars_ and the length nfvlen_ of the file's variables;
\* Nlocs is the constructor argument
ReadDims(f, Nlocs) ==
  IF DimId(f, "nrecs") # -1
  THEN [nfvlen |-> DimLen(f, DimId(f, "nlocs")),
        nobs |-> DimLen(f, DimId(f, "nobs")),
        nrecs |-> DimLen(f, DimId(f, "nrecs")),
        nvars |-> DimLen(f, DimId(f, "nvars"))]
  ELSE LET nobs == DimLen(f, DimId(f, "nobs"))
           nvars == IF DimId(f, "nchans") # -1
                    THEN DimLen(f, DimId(f, "nchans")) ELSE 1
       IN [nfvlen |-> nobs \div nvars, nobs |-> nobs, nrecs |-> Nlocs,
           nvars |-> nvars]

\* the values nlocs_id_ can hold after nc_inq_dimid(ncid_, "nlocs", &nlocs_id_):
\* the id of the dimension, or, when the file has none, whatever the
\* uninitialized member held
NlocsIds(f) ==
  IF DimId(f, "nlocs") # -1 THEN {DimId(f, "nlocs")}
  ELSE {-1} \cup {k - 1 : k \in 1..Len(f.dims)}

\* what a read of more than nfvlen_ values into a buffer of nfvlen_ elements
\* can do (datetime in the constructor, iData/rData/dData in ReadVar_any): the
\* process dies, or it goes on with the first nfvlen_ values
Overruns(f) ==
  IF \E k \in 1..Len(f.vars) :
       /\ Len(f.vars[k].dimids) = 1
       /\ DimLen(f, f.vars[k].dimids[1]) > ReadDims(f, 0).nfvlen
  THEN {"crash", "ignored"} ELSE {"ignored"}

\* the walk through the variables: the VALID ones enter vname_group_, and a
\* name starting with "time" adds ("date", gname)
RECURSIVE VarListFrom(_, _, _, _)
VarListFrom(f, nlocs_id_, varid, vname_group_) ==
  IF varid > Len(f.vars) THEN vname_group_
  ELSE LET v == f.vars[varid]
           vname == v.name
           Spos == StrFind(vname, S_at)
           gname == IF Spos # -1 THEN SubstrFrom(vname, Spos + 1) ELSE <<>>
           one == Append(vname_group_, <<SubstrTo(vname, Spos), gname>>)
           two == IF StrFind(vname, S_time) = 0
                  THEN Append(one, <<S_date, gname>>) ELSE one
       IN IF Len(v.dimids) = 1 /\ v.dimids[1] = nlocs_id_
          THEN VarListFrom(f, nlocs_id_, varid + 1, two)
          ELSE VarListFrom(f, nlocs_id_, varid + 1, vname_group_)

\* mutant: a failed lookup of the time variable is not checked and every
\* offset is taken as zero
ReadDateTimeNoCheck(f) ==
  LET refdt_ == DateTimeOfInts(f.date_time \div 100, (f.date_time % 100) * 3600)
      id == IF VarId(f, S_time) # 0 THEN VarId(f, S_time)
            ELSE VarId(f, S_time \o S_at \o S_MetaData)
  IN IF id = 0
     THEN [ok |-> TRUE,
           datetime |-> [i \in 1..ReadDims(f, 0).nfvlen |-> refdt_]]
     ELSE [ok |-> TRUE,
           datetime |-> [i \in 1..DimLen(f, f.vars[id].dimids[1]) |->
                           DateTimePlus(refdt_,
                                        TruncSeconds(f.vars[id].data[i]))]]

\* ReadDateTime(util::DateTime VarDateTime[]): the timestamps of the file's
\* time variable ("time", else "time@MetaData"); not ok when there is none
ReadDateTime(f) ==
  LET refdt_ == DateTimeOfInts(f.date_time \div 100, (f.date_time % 100) * 3600)
      id == IF VarId(f, S_time) # 0 THEN VarId(f, S_time)
            ELSE VarId(f, S_time \o S_at \o S_MetaData)
  IN IF id = 0 THEN [ok |-> FALSE, datetime |-> <<>>]
     ELSE LET OffsetTime == f.vars[id].data
              vsize_ == DimLen(f, f.vars[id].dimids[1])
          IN [ok |-> TRUE,
              datetime |-> [i \in 1..vsize_ |->
                              DateTimePlus(refdt_, TruncSeconds(OffsetTime[i]))]]

\* mutant: the upper bound of the window is exclusive
InWindowOpenEnd(t, bgn, end) == DateTimeLess(bgn, t) /\ DateTimeLess(t, end)

\* mutant: the lower bound of the window is inclusive
InWindowClosed(t, bgn, end) == DateTimeLeq(bgn, t) /\ DateTimeLeq(t, end)

\* (datetime[index] > bgn) && (datetime[index] <= end)
InWindow(t, bgn, end) == DateTimeLess(bgn, t) /\ DateTimeLeq(t, end)

\* mutant: the derived date and time are put in front of the vectors
RECURSIVE FilterFromFront(_, _, _, _, _, _)
FilterFromFront(index, datetime, bgn, end, ii, acc) ==
  IF ii > Len(index) THEN acc
  ELSE LET t == datetime[index[ii] + 1]
           c == ToYYYYMMDDhhmmss(t)
       IN IF InWindow(t, bgn, end)
          THEN FilterFromFront(index, datetime, bgn, end, ii + 1,
                 [acc EXCEPT
                    !.date_ = <<c[1] * 10000 + c[2] * 100 + c[3]>> \o @,
                    !.time_ = <<c[4] * 10000 + c[5] * 100 + c[6]>> \o @])
          ELSE FilterFromFront(index, datetime, bgn, end, ii + 1,
                 [acc EXCEPT !.to_be_removed = Append(@, index[ii])])

\* the loop over the owned indices: date_ and time_ of those inside the
\* window, to_be_removed for the others
RECURSIVE FilterFrom(_, _, _, _, _, _)
FilterFrom(index, datetime, bgn, end, ii, acc) ==
  IF ii > Len(index) THEN acc
  ELSE LET t == datetime[index[ii] + 1]
           c == ToYYYYMMDDhhmmss(t)
       IN IF InWindow(t, bgn, end)
          THEN FilterFrom(index, datetime, bgn, end, ii + 1,
                 [acc EXCEPT
                    !.date_ = Append(@, c[1] * 10000 + c[2] * 100 + c[3]),
                    !.time_ = Append(@, c[4] * 10000 + c[5] * 100 + c[6])])
          ELSE FilterFrom(index, datetime, bgn, end, ii + 1,
                 [acc EXCEPT !.to_be_removed = Append(@, index[ii])])

\* mutant: the loop over to_be_removed starts at its second element
RECURSIVE EraseAllSkipFirst(_, _, _)
EraseAllSkipFirst(index, to_be_removed, n) ==
  IF n <= 1 THEN index
  ELSE DistErase(EraseAllSkipFirst(index, to_be_removed, n - 1),
                 to_be_removed[n])

\* for (ii...) dist_->erase(to_be_removed[ii]): the owned list after the first
\* n erases (the one-element set binds the list of the step before once)
RECURSIVE EraseAll(_, _, _)
EraseAll(index, to_be_removed, n) ==
  IF n = 0 THEN index
  ELSE CHOOSE erased \in
         {DistErase(before, to_be_removed[n]) :
            before \in {EraseAll(index, to_be_removed, n - 1)}} : TRUE

\* the file modes CreateFromFile is called with: read, and a mode the
\* constructor does not know
FileModes == {"r", "x"}

\* the object of a constructor that ended the process before any dimension
\* was read
Aborted(FileMode, overrun) ==
  [status |-> "abort", nfvlen |-> 0, nobs |-> 0, nrecs |-> 0, nvars |-> 0,
   vname_group_ |-> <<>>, index |-> <<>>, to_be_removed |-> <<>>,
   datetime |-> <<>>, date_ |-> <<>>, time_ |-> <<>>, nlocs |-> 0,
   overrun |-> overrun, fmode_ |-> FileMode]

\* the constructor on rank r of R for the modes "r" and unrecognized; status
\* "abort" when ABORT (unrecognized mode, failed open, failed netcdf call) or a
\* failed ASSERT ends the process
NetcdfIORead(f, FileMode, bgn, end, R, r, nlocs_id_, overrun) ==
  IF FileMode # "r" \/ ~f.present THEN Aborted(FileMode, overrun) ELSE
  LET d == ReadDims(f, 0)
      pre == RoundRobin(d.nfvlen, R, r, <<>>)
      vl == VarListFrom(f, nlocs_id_, 1, <<>>)
      base == [status |-> "ok", nfvlen |-> d.nfvlen, nobs |-> d.nobs,
               nrecs |-> d.nrecs, nvars |-> d.nvars, vname_group_ |-> vl,
               index |-> pre, to_be_removed |-> <<>>, datetime |-> <<>>,
               date_ |-> <<>>, time_ |-> <<>>, nlocs |-> Len(pre),
               overrun |-> overrun, fmode_ |-> FileMode]
  IN IF ~f.hasDT THEN base
     ELSE LET dt == ReadDateTime(f)
          IN IF ~dt.ok THEN [base EXCEPT !.status = "abort"]
             ELSE IF Len(dt.datetime) > d.nfvlen /\ overrun = "crash"
             THEN [base EXCEPT !.status = "abort"]
             ELSE LET fl == FilterFrom(pre, dt.datetime, bgn, end, 1,
                                       [date_ |-> <<>>, time_ |-> <<>>,
                                        to_be_removed |-> <<>>])
                      index == EraseAll(pre, fl.to_be_removed,
                                        Len(fl.to_be_removed))
                  IN [base EXCEPT
                        !.status = IF Len(fl.date_) = Len(index)
                                   THEN "ok" ELSE "abort",
                        !.index = index,
                        !.to_be_removed = fl.to_be_removed,
                        !.datetime = dt.datetime,
                        !.date_ = fl.date_,
                        !.time_ = fl.time_,
                        !.nlocs = Len(index)]

\* ---- NetcdfIO::ReadVar_any -------------------------------------------------
\* a boost::any: the type it holds and the value; "empty" when never assigned
AnyInt(v) == [t |-> "int", v |-> v]
AnyFloat(v) == [t |-> "float", v |-> v]
AnyEmpty == [t |-> "empty", v |-> 0]

\* mutant: large values of both signs are taken as missing
SubstitutedBothSigns(x) ==
  IF x > missingthreshold \/ x < -missingthreshold THEN fmiss ELSE x

\* the float kept for a file value x: fmiss when it exceeds missingthreshold
Substituted(x) == IF x > missingthreshold THEN fmiss ELSE x

\* ReadVar_any(VarName, VarData) on the open file: names starting with "date"
\* or "time" return the derived vectors, the others the file's values at the
\* owned indices; not ok when an ASSERT fails or the dataset is not found
ReadVar_any(f, nio, VarName) ==
  LET n == Len(nio.index)
  IN IF StrFind(VarName, S_date) = 0
     THEN IF Len(nio.date_) # n THEN [ok |-> FALSE, data |-> <<>>]
          ELSE [ok |-> TRUE, data |-> [ii \in 1..n |-> AnyInt(nio.date_[ii])]]
     ELSE IF StrFind(VarName, S_time) = 0
     THEN IF Len(nio.time_) # n THEN [ok |-> FALSE, data |-> <<>>]
          ELSE [ok |-> TRUE, data |-> [ii \in 1..n |-> AnyInt(nio.time_[ii])]]
     ELSE LET id == VarId(f, VarName)
          IN IF id = 0 THEN [ok |-> FALSE, data |-> <<>>]
             ELSE LET v == f.vars[id]
                  IN IF /\ v.type \in {"NC_INT", "NC_FLOAT", "NC_DOUBLE"}
                        /\ Len(v.data) > nio.nfvlen
                        /\ nio.overrun = "crash"
                     THEN [ok |-> FALSE, data |-> <<>>]
                     ELSE
                     [ok |-> TRUE,
                      data |->
                        [ii \in 1..n |->
                           CASE v.type = "NC_INT" ->
                                  AnyInt(v.data[nio.index[ii] + 1])
                             [] v.type = "NC_FLOAT" ->
                                  AnyFloat(Substituted(v.data[nio.index[ii] + 1]))
                             [] v.type = "NC_DOUBLE" ->
                                  AnyFloat(Substituted(
                                    FloatOfDouble(v.data[nio.index[ii] + 1])))
                             [] OTHER -> AnyEmpty]]

\* ---- ObsSpaceContainer ------------------------------------------------------
\* position of the record (group, variable) in the container, 0 when absent
RECURSIVE RecPosFrom(_, _, _, _)
RecPosFrom(recs, group, variable, k) ==
  IF k > Len(recs) THEN 0
  ELSE IF recs[k].group = group /\ recs[k].variable = variable THEN k
       ELSE RecPosFrom(recs, group, variable, k + 1)

\* mutant: the lookup compares the variable name only
hasAnyGroup(recs, group, variable) ==
  \E k \in 1..Len(recs) : recs[k].variable = variable

\* ObsSpaceContainer::has
has(recs, group, variable) == RecPosFrom(recs, group, variable, 1) # 0

\* DataContainer.insert: refused when the key (group, variable) is present
ContainerInsert(recs, rec) ==
  IF has(recs, rec.group, rec.variable) THEN recs ELSE Append(recs, rec)

\* the loop of CreateFromFile over the variable list, after its first n
\* entries: every variable read and inserted, until a read ends the process
LoadVarsStep(f, nio, before, k) ==
  LET variable == nio.vname_group_[k][1]
      g == nio.vname_group_[k][2]
      db_name == IF Len(g) > 0 THEN variable \o S_at \o g ELSE variable
      group == IF Len(g) > 0 THEN g ELSE S_GroupUndefined
      rd == ReadVar_any(f, nio, db_name)
  IN IF before.status # "ok" THEN before
     ELSE IF ~rd.ok THEN [status |-> "abort", recs |-> before.recs]
     ELSE [status |-> "ok",
           recs |-> ContainerInsert(before.recs,
                      [group |-> group, variable |-> variable, mode |-> "r",
                       size |-> nio.nlocs, data |-> rd.data])]

RECURSIVE LoadVars(_, _, _)
LoadVars(f, nio, n) ==
  IF n = 0 THEN [status |-> "ok", recs |-> <<>>]
  ELSE CHOOSE loaded \in
         {LoadVarsStep(f, nio, before, n) :
            before \in {LoadVars(f, nio, n - 1)}} : TRUE

\* ObsSpaceContainer::CreateFromFile: the read-mode open, then every variable
\* of the list read and inserted; the container and the NetcdfIO state
CreateFromFile(f, mode, bgn, end, R, r, nlocs_id_, overrun) ==
  CHOOSE c \in
    {[io |-> nio,
      db |-> LET ld == IF nio.status = "ok"
                       THEN LoadVars(f, nio, Len(nio.vname_group_))
                       ELSE [status |-> "abort", recs |-> <<>>]
             IN [status |-> ld.status, nlocs |-> nio.nlocs,
                 nvars |-> nio.nvars, recs |-> ld.recs]] :
       nio \in {NetcdfIORead(f, mode, bgn, end, R, r, nlocs_id_, overrun)}} :
    TRUE

\* the records in the order of the by_variable index (equal names keep their
\* insertion order)
RECURSIVE InsertByVariable(_, _)
InsertByVariable(sorted, rec) ==
  IF sorted = <<>> THEN <<rec>>
  ELSE IF StrLess(rec.variable, Head(sorted).variable)
       THEN <<rec>> \o sorted
       ELSE <<Head(sorted)>> \o InsertByVariable(Tail(sorted), rec)

RECURSIVE by_variable(_, _)
by_variable(recs, n) ==
  IF n = 0 THEN <<>>
  ELSE CHOOSE sorted \in
         {InsertByVariable(before, recs[n]) :
            before \in {by_variable(recs, n - 1)}} : TRUE

\* what VarData->type() can yield when the array has no element
EmptyArrayTypes == {"int", "empty", "crash"}

\* NetcdfIO::WriteVar_any(VarName, VarData) on the file being written; first
\* is the type of VarData[0], or, for nlocs = 0, what the read past the array
\* yields
WriteVar_any(f, VarName, VarData, first) ==
  LET nctype == CASE first = "int" -> "NC_INT"
                  [] first = "float" -> "NC_FLOAT"
                  [] first = "double" -> "NC_DOUBLE"
                  [] OTHER -> "none"
      id == VarId(f.file, VarName)
      var == [name |-> VarName, type |-> nctype,
              dimids |-> <<DimId(f.file, "nlocs")>>,
              data |-> [ii \in 1..Len(VarData) |-> VarData[ii].v]]
  IN IF f.status # "ok" THEN f
     ELSE IF first = "crash" THEN [f EXCEPT !.status = "abort"]
     ELSE IF nctype = "none" THEN f
     ELSE IF \E ii \in 1..Len(VarData) : VarData[ii].t # first
     THEN [f EXCEPT !.status = "abort"]
     ELSE IF id = 0 THEN [f EXCEPT !.file.vars = Append(@, var)]
     ELSE [f EXCEPT !.file.vars[id].data = var.data]

\* the file after the first n records of the by_variable walk are written
RECURSIVE DumpFrom(_, _, _, _)
DumpFrom(f, sorted, n, ub) ==
  IF n = 0 THEN f
  ELSE CHOOSE written \in
         {WriteVar_any(before, sorted[n].variable \o S_at \o sorted[n].group,
                       sorted[n].data,
                       IF Len(sorted[n].data) > 0 THEN sorted[n].data[1].t
                       ELSE ub) :
            before \in {DumpFrom(f, sorted, n - 1, ub)}} : TRUE

\* ObsSpaceContainer::dump(file_name): a new file with the dimensions nlocs,
\* nobs = 0, nrecs = 0, nvars, and every record written by WriteVar_any
dump(db, ub) ==
  CHOOSE written \in
    {DumpFrom([status |-> "ok",
               file |-> [dims |-> <<[name |-> "nlocs", len |-> db.nlocs],
                                    [name |-> "nobs", len |-> 0],
                                    [name |-> "nrecs", len |-> 0],
                                    [name |-> "nvars", len |-> db.nvars]>>,
                         hasDT |-> FALSE, date_time |-> 0, vars |-> <<>>,
                         present |-> TRUE]],
              sorted, Len(sorted), ub) :
       sorted \in {by_variable(db.recs, Len(db.recs))}} : TRUE

\* ---- input files -----------------------------------------------------------
\* time offsets in ticks: 0 h, 0.4 h and -1.5 s
OffsetVals == {0, 14400, -15}

\* date_time attribute of the input files (yyyymmddhh)
RefDateTime == 2018041500

\* the windows (bgn, end]: 00:00..00:30 of the reference day, and 23:00 of the
\* day before .. 00:00 of the reference day
Windows ==
  {[bgn |-> DateTimeOfInts(20180415, 0), end |-> DateTimeOfInts(20180415, 1800)],
   [bgn |-> DateTimeOfInts(20180414, 82800),
    end |-> DateTimeOfInts(20180415, 0)]}

\* file values at global index i: an int variable with one value above
\* missingthreshold, a double variable with values around missingthreshold, a
\* float variable with large values of both signs
IntValue(i) == IF i = 0 THEN 300000000 ELSE 10 + i

DoubleValue(i) ==
  CASE i = 0 -> 100000001
    [] i = 1 -> 100000008
    [] OTHER -> 25 + i

FloatValue(i) ==
  CASE i = 0 -> 200000000
    [] i = 1 -> -200000000
    [] OTHER -> 5 + i

FileVar(name, type, dimid, data) ==
  [name |-> name, type |-> type, dimids |-> <<dimid>>, data |-> data]

\* the variables of a file of n locations along dimension dimid, by kind:
\*  "A" time@MetaData, x@ObsValue (int), y@ObsValue (double)
\*  "B" time, z (float), c@MetaData (char), p@ObsValue (two dimensions)
\*  "C" x@ObsValue (int), y@ObsValue (double), z (float)
\*  "D" x@ObsValue (int), c@MetaData (char)
\*  "E" time@MetaData, date@MetaData (int), x@ObsValue (int)
FileVars(kind, n, dimid, offs) ==
  LET x == FileVar(S_x \o S_at \o S_ObsValue, "NC_INT", dimid,
                   [k \in 1..n |-> IntValue(k - 1)])
      y == FileVar(S_y \o S_at \o S_ObsValue, "NC_DOUBLE", dimid,
                   [k \in 1..n |-> DoubleValue(k - 1)])
      z == FileVar(S_z, "NC_FLOAT", dimid, [k \in 1..n |-> FloatValue(k - 1)])
      c == FileVar(S_c \o S_at \o S_MetaData, "NC_CHAR", dimid,
                   [k \in 1..n |-> 0])
      p == [name |-> S_p \o S_at \o S_ObsValue, type |-> "NC_FLOAT",
            dimids |-> <<dimid, 0>>, data |-> [k \in 1..(2 * n) |-> k]]
  IN CASE kind = "A" ->
            <<FileVar(S_time \o S_at \o S_MetaData, "NC_FLOAT", dimid, offs),
              x, y>>
       [] kind = "B" -> <<FileVar(S_time, "NC_FLOAT", dimid, offs), z, c, p>>
       [] kind = "C" -> <<x, y, z>>
       [] kind = "D" -> <<x, c>>
       [] kind = "E" ->
            <<FileVar(S_time \o S_at \o S_MetaData, "NC_FLOAT", dimid, offs),
              FileVar(S_date \o S_at \o S_MetaData, "NC_INT", dimid,
                      [k \in 1..n |-> 20180401 + k]),
              x>>

\* a file of the modern layout
ModernFile(kind, n, hasDT, offs) ==
  [dims |-> <<[name |-> "nvars", len |-> 2], [name |-> "nlocs", len |-> n],
              [name |-> "nrecs", len |-> n], [name |-> "nobs", len |-> 2 * n]>>,
   hasDT |-> hasDT, date_time |-> RefDateTime,
   vars |-> FileVars(kind, n, 1, offs), present |-> TRUE]

\* a file of the old layout, without nchans
LegacyFile(kind, n, hasDT, offs) ==
  [dims |-> <<[name |-> "nobs", len |-> n]>>,
   hasDT |-> hasDT, date_time |-> RefDateTime,
   vars |-> FileVars(kind, n, 0, offs), present |-> TRUE]

\* a file of the old layout with nchans: variables of nobs values
LegacyChansFile(kind, nobs, nchans, hasDT, offs) ==
  [dims |-> <<[name |-> "nobs", len |-> nobs],
              [name |-> "nchans", len |-> nchans]>>,
   hasDT |-> hasDT, date_time |-> RefDateTime,
   vars |-> FileVars(kind, nobs, 0, offs), present |-> TRUE]

\* a file name nc_open finds no file for
MissingFile ==
  [dims |-> <<>>, hasDT |-> FALSE, date_time |-> 0, vars |-> <<>>,
   present |-> FALSE]

\* the offset vectors of the files of n locations
OffsetVectors(n, hasDT) ==
  IF hasDT THEN [1..n -> OffsetVals] ELSE {[i \in 1..n |-> 0]}

\* offsets -0.6, -0.4, 0.0, +0.4, +0.6 hours and the window 00:00..00:30
SeedTimeFilter ==
  [file |-> ModernFile("A", 5, TRUE, <<-21600, -14400, 0, 14400, 21600>>),
   bgn |-> DateTimeOfInts(20180415, 0), end |-> DateTimeOfInts(20180415, 1800),
   R |-> 1]

\* an old file of nobs = 20 and nchans = 4, every time 0.4 h after the
\* reference time, read on one rank
SeedLegacy ==
  [file |-> LegacyChansFile("A", 20, 4, TRUE, [i \in 1..20 |-> 14400]),
   bgn |-> DateTimeOfInts(20180415, 0), end |-> DateTimeOfInts(20180415, 1800),
   R |-> 1]

\* offsets of +0.7 s and -1.7 s, neither a whole number of seconds, in the
\* window 23:00..00:00
SeedFractional ==
  [file |-> ModernFile("A", 2, TRUE, <<7, -17>>),
   bgn |-> DateTimeOfInts(20180414, 82800), end |-> DateTimeOfInts(20180415, 0),
   R |-> 1]

\* the same offset at every location
UniformOffsets(n, hasDT) ==
  IF hasDT THEN {[i \in 1..n |-> o] : o \in OffsetVals}
  ELSE {[i \in 1..n |-> 0]}

InputFiles ==
  UNION {UNION {{ModernFile("A", n, hasDT, offs) :
                   offs \in OffsetVectors(n, hasDT)} :
                hasDT \in BOOLEAN} : n \in 0..MaxLocs}
  \cup UNION {UNION {{ModernFile("B", n, hasDT, offs) :
                        offs \in UniformOffsets(n, hasDT)} :
                     hasDT \in BOOLEAN} : n \in 0..MaxLocs}
  \cup {ModernFile("C", n, hasDT, <<>>) : n \in 0..MaxLocs, hasDT \in BOOLEAN}
  \cup {ModernFile("D", n, FALSE, <<>>) : n \in 0..MaxLocs}
  \cup {LegacyFile("A", n, TRUE, [i \in 1..n |-> 14400]) : n \in 0..MaxLocs}
  \cup UNION {{ModernFile("E", n, TRUE, offs) : offs \in UniformOffsets(n, TRUE)} :
                n \in 0..MaxLocs}
  \cup {LegacyChansFile("A", n, 2, hasDT, [i \in 1..n |-> 14400]) :
           n \in 0..MaxLocs, hasDT \in BOOLEAN}
  \cup {MissingFile}

IngestInputs ==
  {[file |-> f, bgn |-> w.bgn, end |-> w.end, R |-> R] :
     f \in InputFiles, w \in Windows, R \in 1..MaxRanks}
  \cup {SeedTimeFilter, SeedLegacy, SeedFractional}

\* ---- the ranks loading, saving and loading back ----------------------------
NotYet == [status |-> "none"]

InitIngest ==
  \E inp \in IngestInputs :
    /\ StoreIdle
    /\ SpaceIdle
    /\ ObsIoIdle
    /\ file = inp.file
    /\ winbgn = inp.bgn
    /\ winend = inp.end
    /\ gnlocs = 0
    /\ nproc = inp.R
    /\ group_numbers_ = <<>>
    /\ indx_ = [r \in Ranks(inp.R) |-> <<>>]
    /\ distributed = {}
    /\ eraseCalls = [r \in Ranks(inp.R) |-> {}]
    /\ io = [r \in Ranks(inp.R) |-> NotYet]
    /\ database = [r \in Ranks(inp.R) |-> NotYet]
    /\ dumpfile = [r \in Ranks(inp.R) |-> NotYet]
    /\ reloaded = [r \in Ranks(inp.R) |-> NotYet]

\* rank r: ObsSpaceContainer::CreateFromFile(filename, mode, bgn, end, comm)
CreateFromFileCall(r) ==
  /\ io[r].status = "none"
  /\ \E mode \in FileModes :
     \E nlocs_id_ \in NlocsIds(file) : \E overrun \in Overruns(file) :
       \E c \in {CreateFromFile(file, mode, winbgn, winend, nproc, r,
                                 nlocs_id_, overrun)} :
          /\ io' = [io EXCEPT ![r] = c.io]
          /\ database' = [database EXCEPT ![r] = c.db]
          /\ gnlocs' = IF mode = "r" /\ file.present THEN c.io.nfvlen
                        ELSE gnlocs
          /\ indx_' = [indx_ EXCEPT ![r] = c.io.index]
          /\ distributed' = IF mode = "r" /\ file.present
                             THEN distributed \cup {r} ELSE distributed
          /\ eraseCalls' = [eraseCalls EXCEPT ![r] = Range(c.io.to_be_removed)]
  /\ UNCHANGED <<nproc, group_numbers_, storeVars, file, winbgn, winend,
                 dumpfile, reloaded, spaceVars, obsIoVars>>

\* rank r: ObsSpaceContainer::dump(file_name)
DumpCall(r) ==
  /\ database[r].status = "ok"
  /\ dumpfile[r].status = "none"
  /\ \E ub \in (IF database[r].nlocs = 0 /\ database[r].recs # <<>>
                THEN EmptyArrayTypes ELSE {"empty"}) :
       dumpfile' = [dumpfile EXCEPT ![r] = dump(database[r], ub)]
  /\ UNCHANGED <<distVars, storeVars, file, winbgn, winend, io, database,
                 reloaded, spaceVars, obsIoVars>>

\* rank r: CreateFromFile on the file it dumped, same window and ranks
LoadBack(r) ==
  /\ dumpfile[r].status = "ok"
  /\ reloaded[r].status = "none"
  /\ \E nlocs_id_ \in NlocsIds(dumpfile[r].file) :
       \E overrun \in Overruns(dumpfile[r].file) :
         reloaded' = [reloaded EXCEPT ![r] =
                        CreateFromFile(dumpfile[r].file, "r", winbgn, winend,
                                       nproc, r, nlocs_id_, overrun).db]
  /\ UNCHANGED <<distVars, storeVars, file, winbgn, winend, io, database,
                 dumpfile, spaceVars, obsIoVars>>

NextIngest ==
  \/ \E r \in Ranks(nproc) : CreateFromFileCall(r)
  \/ \E r \in Ranks(nproc) : DumpCall(r)
  \/ \E r \in Ranks(nproc) : LoadBack(r)

SpecIngest == InitIngest /\ [][NextIngest]_vars

\* ------------------------------------------------------------------------
\* Properties of the load from file and the save
\* ------------------------------------------------------------------------
\* the global indices rank r owns before the time filter
OwnedBefore(r) == Range(RoundRobin(gnlocs, nproc, r, <<>>))

\* ranks whose read-mode open has run the time filter to its end
Filtered == {r \in distributed : file.hasDT /\ io[r].status = "ok"}

\* C1: after the read-mode open of a file with timestamps, an index the rank
\* owned before the filter is still owned iff winbgn < t_i <= winend, and the
\* erased indices are exactly the owned ones failing that test
C1_TimeWindowFilter ==
  \A r \in Filtered :
    /\ \A i \in OwnedBefore(r) :
         (i \in Owned(r)) <=>
           (/\ DateTimeLess(winbgn, io[r].datetime[i + 1])
            /\ DateTimeLeq(io[r].datetime[i + 1], winend))
    /\ eraseCalls[r] = OwnedBefore(r) \ Owned(r)
    /\ Owned(r) \subseteq OwnedBefore(r)

C1_Witness ==
  \E r \in Filtered :
    /\ \E i \in OwnedBefore(r) :
         io[r].datetime[i + 1] = winbgn /\ i \notin Owned(r)
    /\ \E i \in OwnedBefore(r) :
         DateTimeLess(winbgn, io[r].datetime[i + 1]) /\ i \in Owned(r)
    /\ \E i \in OwnedBefore(r) :
         DateTimeLess(io[r].datetime[i + 1], winbgn) /\ i \notin Owned(r)

\* the (group, variable) keys of a container
KeysOf(recs) == {<<recs[k].group, recs[k].variable>> : k \in 1..Len(recs)}

\* C5 as stated: the container loaded back from the file a container was
\* saved to has the same keys, and under every key the same values with the
\* same type
C5_RoundTrip ==
  \A r \in DOMAIN reloaded :
    reloaded[r].status # "none" =>
      /\ reloaded[r].status = "ok"
      /\ KeysOf(reloaded[r].recs) = KeysOf(database[r].recs)
      /\ \A k \in 1..Len(database[r].recs) :
           LET rec == database[r].recs[k]
               p == RecPosFrom(reloaded[r].recs, rec.group, rec.variable, 1)
           IN p # 0 /\ reloaded[r].recs[p].data = rec.data

\* ------------------------------------------------------------------------
\* Order of the records of the typed container
\* ------------------------------------------------------------------------
\* the keys of the records in the order var_iter_begin .. var_iter_end walks
KeySeq(db) == [k \in 1..Len(db) |-> <<db[k].group, db[k].variable>>]

IsPrefix(s, t) == Len(s) <= Len(t) /\ SubSeq(t, 1, Len(s)) = s

\* the first stores of testGrpVarIter: two variables already in the container
OrderFirst(T) == [key |-> <<"MetaData", "a">>, vec |-> TestVec(T, 1, 0)]
OrderSecond(T) == [key |-> <<"ObsValue", "a">>, vec |-> TestVec(T, 2, 0)]

TwoStored(T) ==
  StoreToDb(StoreToDb(<<>>, OrderFirst(T).key[1], OrderFirst(T).key[2],
                      <<1>>, OrderFirst(T).vec, FALSE).db,
            OrderSecond(T).key[1], OrderSecond(T).key[2],
            <<2>>, OrderSecond(T).vec, FALSE).db

InitOrder ==
  /\ DistIdle
  /\ IngestIdle
  /\ SpaceIdle
  /\ ObsIoIdle
  /\ ctype \in ElemTypes
  /\ DataContainer = TwoStored(ctype)
  /\ hist = [k \in StoreKeys |->
               IF k = OrderFirst(ctype).key
               THEN [kind |-> "whole", vec |-> OrderFirst(ctype).vec,
                     shape |-> <<1>>]
               ELSE IF k = OrderSecond(ctype).key
               THEN [kind |-> "whole", vec |-> OrderSecond(ctype).vec,
                     shape |-> <<2>>]
               ELSE [kind |-> "absent"]]
  /\ lastCall = [op |-> "none"]
  /\ nops = 0
  /\ out = [op |-> "none"]

\* further stores, loads and walks on a container that holds two variables
SpecOrder == InitOrder /\ [][NextStore]_vars

put_dbRetag(db, g, v, T, data) ==
  LET p == KeyPos(db, g, v)
      rec == [group |-> g, variable |-> v, tag |-> T,
              shape |-> <<Len(data)>>, data |-> data]
  IN IF p = 0 THEN [err |-> "none", db |-> Append(db, rec)]
     ELSE IF db[p].shape # <<Len(data)>>
     THEN [err |-> "ShapeMismatch", db |-> db]
     ELSE [err |-> "none", db |-> [db EXCEPT ![p] = rec]]

\* put_db<T>(group, variable, length, in_buffer): creates the variable on the
\* first call; a later call overwrites when type and shape match, fails with
\* TypeMismatch when the stored tag is not T and with ShapeMismatch when the
\* length differs, and a failed call leaves the store as it was
put_db(db, g, v, T, data) ==
  LET p == KeyPos(db, g, v)
      rec == [group |-> g, variable |-> v, tag |-> T,
              shape |-> <<Len(data)>>, data |-> data]
  IN IF p = 0 THEN [err |-> "none", db |-> Append(db, rec)]
     ELSE IF db[p].tag # T THEN [err |-> "TypeMismatch", db |-> db]
     ELSE IF db[p].shape # <<Len(data)>>
     THEN [err |-> "ShapeMismatch", db |-> db]
     ELSE [err |-> "none", db |-> [db EXCEPT ![p].data = data]]

InitPut ==
  /\ DistIdle
  /\ IngestIdle
  /\ SpaceIdle
  /\ ObsIoIdle
  /\ ctype = "int"
  /\ DataContainer = <<>>
  /\ hist = <<>>
  /\ lastCall = [op |-> "none"]
  /\ nops = 0
  /\ out = [op |-> "none"]

\* put_db<T>(key, Len(data), data); the call record keeps the store it found
put_dbCall(key, T, data) ==
  LET r == put_db(DataContainer, key[1], key[2], T, data)
  IN /\ nops < MaxOps
     /\ nops' = nops + 1
     /\ DataContainer' = r.db
     /\ lastCall' = [op |-> "put_db", key |-> key, tag |-> T, err |-> r.err,
                     before |-> DataContainer]
     /\ UNCHANGED <<ctype, hist, out, distVars, ingestVars, spaceVars, obsIoVars>>

NextPut ==
  \E key \in StoreKeys : \E T \in ElemTypes : \E n \in 0..MaxVecLen :
    put_dbCall(key, T, TestVec(T, n, 0))

SpecPut == InitPut /\ [][NextPut]_vars

\* C13: a put_db<U> on a variable created by put_db<T>, U # T, fails with
\* TypeMismatch and leaves keys, tags, shapes, data and order as they were
C13_TypeImmutable ==
  lastCall.op = "put_db" =>
    LET p == KeyPos(lastCall.before, lastCall.key[1], lastCall.key[2])
    IN (p # 0 /\ lastCall.before[p].tag # lastCall.tag)
         => (lastCall.err = "TypeMismatch" /\ DataContainer = lastCall.before)

C13_Witness ==
  /\ lastCall.op = "put_db"
  /\ lastCall.err = "TypeMismatch"
  /\ lastCall.before # <<>>
  /\ Len(lastCall.before[1].data) = MaxVecLen
  /\ DataContainer = lastCall.before

\* the (group, variable) pairs has() is asked about
AskedKeys ==
  {S_MetaData, S_ObsValue, S_GroupUndefined}
    \X {S_time, S_date, S_x, S_y, S_z, S_c, S_p}

\* the containers of the model: loaded from the input file or loaded back
Containers ==
  {database[r] : r \in DOMAIN database} \cup {reloaded[r] : r \in DOMAIN reloaded}

\* C12: a container never holds two records with the same (group, variable),
\* also when the variable list of the file names a pair twice, and
\* has(group, variable) is true exactly for the pairs that have a record
C12_PrimaryKeyUnique ==
  \A c \in Containers :
    c.status # "none" =>
      /\ \A a, b \in 1..Len(c.recs) :
           (c.recs[a].group = c.recs[b].group
              /\ c.recs[a].variable = c.recs[b].variable) => a = b
      /\ \A key \in AskedKeys :
           has(c.recs, key[1], key[2]) <=> key \in KeysOf(c.recs)

C12_Witness ==
  \E r \in DOMAIN database :
    /\ database[r].status = "ok"
    /\ database[r].nlocs >= 1
    /\ Len(database[r].recs) = 3
    /\ Len(io[r].vname_group_) = 4
    /\ \E a, b \in 1..4 : a # b /\ io[r].vname_group_[a] = io[r].vname_group_[b]

\* the name a record was read under: variable@group, or the bare variable for
\* the group GroupUndefined
FileName(rec) ==
  IF rec.group = S_GroupUndefined THEN rec.variable
  ELSE rec.variable \o S_at \o rec.group

Abs(x) == IF x < 0 THEN -x ELSE x

\* the float a file value becomes before the missing-value test
AsFloat(v, x) == IF v.type = "NC_DOUBLE" THEN FloatOfDouble(x) ELSE x

\* C14 as stated: every float read from the file, and every double after its
\* coercion to float, is replaced by the missing value when |x| > 1.0e8 and
\* kept as it is otherwise
C14_MissingValueSubstitution ==
  \A r \in DOMAIN database :
    database[r].status = "ok" =>
      \A k \in 1..Len(database[r].recs) :
        LET rec == database[r].recs[k]
            id == VarId(file, FileName(rec))
        IN (id # 0 /\ file.vars[id].type \in {"NC_FLOAT", "NC_DOUBLE"}
              /\ StrFind(rec.variable, S_time) # 0
              /\ StrFind(rec.variable, S_date) # 0)
             => \A ii \in 1..Len(rec.data) :
                  LET x == AsFloat(file.vars[id],
                                   file.vars[id].data[io[r].index[ii] + 1])
                  IN rec.data[ii] =
                       AnyFloat(IF Abs(x) > missingthreshold THEN fmiss ELSE x)

\* ranks that opened a file without the date_time attribute
Unfiltered == {r \in distributed : ~file.hasDT /\ io[r].status = "ok"}

\* C15 as stated: without the date_time attribute the open erases no index,
\* nlocs is the size of the rank's distribution, the derived date and time
\* vectors stay empty, and the variable list offers no derived date variable
C15_NoDateTimeAttribute ==
  \A r \in Unfiltered :
    /\ eraseCalls[r] = {}
    /\ indx_[r] = RoundRobin(gnlocs, nproc, r, <<>>)
    /\ io[r].nlocs = Len(RoundRobin(gnlocs, nproc, r, <<>>))
    /\ io[r].date_ = <<>>
    /\ io[r].time_ = <<>>
    /\ \A k \in 1..Len(io[r].vname_group_) : io[r].vname_group_[k][1] # S_date

\* the dimensions of a file by name
HasDim(f, name) == \E k \in 1..Len(f.dims) : f.dims[k].name = name

ExtentOf(f, name) ==
  f.dims[CHOOSE k \in 1..Len(f.dims) : f.dims[k].name = name].len

\* C16: a file with an nrecs dimension is read as modern and the distributed
\* length is its nlocs dimension; any other file is read as legacy with
\* nvars = nchans if that dimension is there, else 1, and the distributed
\* length nobs / nvars; nobs = 20 with nchans = 4 gives nvars = 4 and, on one
\* rank with every time in the window, nlocs = 5
C16_AxisSizing ==
  \A r \in distributed :
    /\ HasDim(file, "nrecs") =>
         /\ io[r].nfvlen = ExtentOf(file, "nlocs")
         /\ io[r].nvars = ExtentOf(file, "nvars")
    /\ ~HasDim(file, "nrecs") =>
         /\ io[r].nvars =
              (IF HasDim(file, "nchans") THEN ExtentOf(file, "nchans") ELSE 1)
         /\ io[r].nfvlen = ExtentOf(file, "nobs") \div io[r].nvars
    /\ gnlocs = io[r].nfvlen
    /\ Range(indx_[r]) \cup eraseCalls[r] = OwnedBefore(r)
    /\ (file = SeedLegacy.file /\ io[r].status = "ok") =>
         (io[r].nvars = 4 /\ io[r].nlocs = 5)

C16_Witness ==
  /\ file = SeedLegacy.file
  /\ 0 \in distributed
  /\ io[0].status = "ok"
  /\ io[0].nvars = 4
  /\ io[0].nlocs = 5
  /\ database[0].status = "ok"
  /\ Len(database[0].recs) = 4

\* the names of the variables of a written file, in file order
WrittenNames(d) == [k \in 1..Len(d.file.vars) |-> d.file.vars[k].name]

\* C17 as stated: the save writes every record of the container exactly once,
\* under variable@group, and under the bare variable name when the group is
\* GroupUndefined
C17_SaveNames ==
  \A r \in DOMAIN dumpfile :
    dumpfile[r].status # "none" =>
      /\ dumpfile[r].status = "ok"
      /\ NoDup(WrittenNames(dumpfile[r]))
      /\ Len(WrittenNames(dumpfile[r])) = Len(database[r].recs)
      /\ Range(WrittenNames(dumpfile[r])) =
           {FileName(database[r].recs[k]) : k \in 1..Len(database[r].recs)}

\* the calls of rank r's load that the backend fails: the mode is not one the
\* constructor knows, nc_open finds no file, or the file has the date_time
\* attribute and neither time nor time@MetaData
BackendFailure(r) ==
  \/ io[r].fmode_ # "r"
  \/ ~file.present
  \/ /\ file.hasDT
     /\ VarId(file, S_time) = 0
     /\ VarId(file, S_time \o S_at \o S_MetaData) = 0

Loaded == {r \in DOMAIN io : io[r].status # "none"}

AllFiltered ==
  /\ distributed = Ranks(nproc)
  /\ Filtered = Ranks(nproc)

\* the global indices whose timestamp lies in (winbgn, winend]
GlobalRetained ==
  {i \in 0..(gnlocs - 1) :
     /\ DateTimeLess(winbgn, io[0].datetime[i + 1])
     /\ DateTimeLeq(io[0].datetime[i + 1], winend)}

RECURSIVE SumNlocs(_)
SumNlocs(D) ==
  IF D = {} THEN 0
  ELSE LET r == CHOOSE x \in D : TRUE
       IN io[r].nlocs + SumNlocs(D \ {r})

\* C20: when all R ranks have loaded the same file with the same window, the
\* index sets they retain are pairwise disjoint, their union is the set of
\* global indices with winbgn < t_i <= winend, and the nlocs of the ranks add
\* up to the size of that set
C20_PartitionAfterIngest ==
  AllFiltered =>
    /\ \A r, q \in Ranks(nproc) : r # q => Owned(r) \cap Owned(q) = {}
    /\ UNION {Owned(r) : r \in Ranks(nproc)} = GlobalRetained
    /\ SumNlocs(Ranks(nproc)) = Cardinality(GlobalRetained)

C20_Witness ==
  /\ AllFiltered
  /\ nproc = 2
  /\ gnlocs = 3
  /\ io[0].nlocs = 1
  /\ io[1].nlocs = 1
  /\ Cardinality(GlobalRetained) = 2

\* ------------------------------------------------------------------------
\* ObsSpace: the constructor and the calls it forwards to the obs db of its
\* observation type
\* ------------------------------------------------------------------------
\* the names the if-chains of ObsSpace compare obsname_ with
ObsTypes ==
  {"Radiance", "Radiosonde", "SeaIceFraction", "StericHeight",
   "SeaIceThickness", "Aod"}

\* the ObsType values of the configurations: the six names and two others
ConfigObsTypes == ObsTypes \cup {"Sonde", "radiance"}

\* what a read of a never-assigned int can give
Indeterminate == {-1, 0, 7}

NoObsSpace ==
  /\ DistIdle
  /\ StoreIdle
  /\ IngestIdle
  /\ ObsIoIdle
  /\ obsname_ = "none"
  /\ keyOspace_ \in Indeterminate
  /\ obsdb = <<>>
  /\ ret = [op |-> "none"]

\* ObsSpace::ObsSpace(config, bgn, end): obsname_ from ObsType, then the setup
\* of the matching type; no branch for any other name
ObsSpaceCtor(ObsType) ==
  /\ obsname_ = "none"
  /\ obsname_' = ObsType
  /\ IF ObsType \in ObsTypes
     THEN /\ keyOspace_' = 1   \* the key the setup registers the obs db under
          /\ obsdb' = [type |-> ObsType, nobs |-> 0]
     ELSE UNCHANGED <<keyOspace_, obsdb>>
  /\ ret' = [op |-> "ObsSpace", obsname |-> ObsType, failed |-> FALSE]
  /\ UNCHANGED <<distVars, storeVars, ingestVars, obsIoVars>>

\* ObsSpace::~ObsSpace
ObsSpaceDtor ==
  /\ obsname_ # "none"
  /\ obsname_' = "none"
  /\ obsdb' = IF obsname_ \in ObsTypes THEN <<>> ELSE obsdb
  /\ ret' = [op |-> "~ObsSpace", obsname |-> obsname_]
  /\ UNCHANGED <<keyOspace_, distVars, storeVars, ingestVars, obsIoVars>>

\* ObsSpace::generateDistribution(conf), conf asking for n obs
ObsSpaceGenerateDistribution(n) ==
  /\ obsname_ # "none"
  /\ obsdb' = IF obsname_ \in ObsTypes THEN [obsdb EXCEPT !.nobs = n] ELSE obsdb
  /\ ret' = [op |-> "generateDistribution", obsname |-> obsname_]
  /\ UNCHANGED <<obsname_, keyOspace_, distVars, storeVars, ingestVars, obsIoVars>>

\* ObsSpace::nobs(): int n, set by the nobs call of the matching type and
\* returned as it is when no name matches
ObsSpaceNobs(n) ==
  /\ obsname_ # "none"
  /\ ret' = [op |-> "nobs", obsname |-> obsname_,
             n |-> IF obsname_ \in ObsTypes THEN obsdb.nobs ELSE n]
  /\ UNCHANGED <<obsname_, keyOspace_, obsdb, distVars, storeVars, ingestVars, obsIoVars>>

\* ObsSpace::getdb(col, keyData): keyData is set by the matching type only
ObsSpaceGetdb(col, keyData) ==
  /\ obsname_ # "none"
  /\ ret' = [op |-> "getdb", obsname |-> obsname_,
             keyData |-> IF obsname_ \in ObsTypes THEN <<keyOspace_, col>>
                         ELSE keyData]
  /\ UNCHANGED <<obsname_, keyOspace_, obsdb, distVars, storeVars, ingestVars, obsIoVars>>

\* ObsSpace::locations(t1, t2): new Locations(keylocs), keylocs set by the
\* matching type only
ObsSpaceLocations(keylocs) ==
  /\ obsname_ # "none"
  /\ ret' = [op |-> "locations", obsname |-> obsname_,
             keylocs |-> IF obsname_ \in ObsTypes THEN keyOspace_ ELSE keylocs]
  /\ UNCHANGED <<obsname_, keyOspace_, obsdb, distVars, storeVars, ingestVars, obsIoVars>>

NextSpace ==
  \/ \E ObsType \in ConfigObsTypes : ObsSpaceCtor(ObsType)
  \/ ObsSpaceDtor
  \/ \E n \in 0..MaxLocs : ObsSpaceGenerateDistribution(n)
  \/ \E n \in Indeterminate : ObsSpaceNobs(n)
  \/ \E col \in {"ObsValue", "ObsError"} : \E keyData \in Indeterminate :
       ObsSpaceGetdb(col, keyData)
  \/ \E keylocs \in Indeterminate : ObsSpaceLocations(keylocs)

SpecSpace == NoObsSpace /\ [][NextSpace]_vars

\* C18 as stated: the construction with an ObsType that is none of the known
\* names fails, so no ObsSpace with such a name exists and nobs, getdb,
\* locations and generateDistribution are never called on one
C18_UnknownObsTypeRejected ==
  /\ obsname_ # "none" => obsname_ \in ObsTypes
  /\ (ret.op = "ObsSpace" /\ ret.obsname \notin ObsTypes) => ret.failed
  /\ ret.op \in {"nobs", "getdb", "locations", "generateDistribution"}
       => ret.obsname \in ObsTypes

\* ------------------------------------------------------------------------
\* The time-filter scenario: five offsets around the reference time
\* ------------------------------------------------------------------------
\* the single rank has opened the file of the time-filter scenario
SeedFiltered ==
  /\ file = SeedTimeFilter.file
  /\ winbgn = SeedTimeFilter.bgn
  /\ winend = SeedTimeFilter.end
  /\ nproc = 1
  /\ io[0].status = "ok"

\* C21 as stated: with date_time 2018041500, offsets -0.6, -0.4, 0.0, +0.4 and
\* +0.6 hours and the window 00:00..00:30 on one rank, the retained indices
\* are 2 and 3 and the derived pairs (20180415, 000000) and (20180415, 002400)
C21_SeedRetainsTwo ==
  SeedFiltered =>
    /\ io[0].index = <<2, 3>>
    /\ io[0].date_ = <<20180415, 20180415>>
    /\ io[0].time_ = <<0, 2400>>

\* C21 amended: in that scenario index 2 has its timestamp on the window
\* begin, which the filter excludes: the only retained index is 3, the only
\* derived pair (20180415, 002400), and indices 0, 1, 2 and 4 are erased
C21_SeedRetainsOne ==
  SeedFiltered =>
    /\ io[0].index = <<3>>
    /\ io[0].nlocs = 1
    /\ io[0].date_ = <<20180415>>
    /\ io[0].time_ = <<2400>>
    /\ io[0].to_be_removed = <<0, 1, 2, 4>>

C21_Witness ==
  /\ SeedFiltered
  /\ io[0].nfvlen = 5
  /\ io[0].datetime[3] = winbgn
  /\ database[0].status = "ok"

\* ------------------------------------------------------------------------
\* The derived date and time against the owned indices after the erases
\* ------------------------------------------------------------------------
\* yyyy*10000 + mm*100 + dd and hh*10000 + mm*100 + ss of a timestamp
DateOf(t) ==
  LET c == CivilFromDays(t.day) IN c[1] * 10000 + c[2] * 100 + c[3]

TimeOf(t) ==
  (t.sec \div 3600) * 10000 + ((t.sec % 3600) \div 60) * 100 + (t.sec % 60)

\* C22: after the time filter and all erases, date_[ii] and time_[ii] are the
\* date and the time of day of the timestamp at global index index()[ii], for
\* every local position ii, and the date and time variables ReadVar_any hands
\* to the container are these values
C22_DerivedAligned ==
  \A r \in Filtered :
    /\ \A ii \in 1..Len(io[r].index) :
         LET t == io[r].datetime[io[r].index[ii] + 1]
         IN /\ io[r].date_[ii] = DateOf(t)
            /\ io[r].time_[ii] = TimeOf(t)
    /\ database[r].status = "ok" =>
         \A k \in 1..Len(database[r].recs) :
           LET rec == database[r].recs[k]
           IN /\ StrFind(rec.variable, S_date) = 0 =>
                   rec.data = [ii \in 1..Len(io[r].index) |->
                      AnyInt(DateOf(io[r].datetime[io[r].index[ii] + 1]))]
              /\ StrFind(rec.variable, S_time) = 0 =>
                   rec.data = [ii \in 1..Len(io[r].index) |->
                      AnyInt(TimeOf(io[r].datetime[io[r].index[ii] + 1]))]

\* an erased index lies before two retained ones of different time of day
C22_Witness ==
  \E r \in Filtered :
    /\ database[r].status = "ok"
    /\ Len(io[r].index) = 2
    /\ io[r].to_be_removed # <<>>
    /\ io[r].to_be_removed[1] < io[r].index[1]
    /\ io[r].time_[1] # io[r].time_[2]
    /\ \E k \in 1..Len(database[r].recs) :
         database[r].recs[k].variable = S_time

\* ------------------------------------------------------------------------
\* The timestamp of an observation
\* ------------------------------------------------------------------------
\* round(offset * 3600): the nearest whole second, halves away from zero
RoundSeconds(ticks) ==
  IF ticks >= 0 THEN (2 * ticks + TicksPerSecond) \div (2 * TicksPerSecond)
  ELSE -((2 * (-ticks) + TicksPerSecond) \div (2 * TicksPerSecond))

\* the offsets of the file's time variable
OffsetsOf(f) ==
  LET id == IF VarId(f, S_time) # 0 THEN VarId(f, S_time)
            ELSE VarId(f, S_time \o S_at \o S_MetaData)
  IN f.vars[id].data

\* C23 as stated: with ref made of the date date_time/100 and
\* (date_time%100)*3600 seconds, every timestamp is ref plus offset*3600
\* rounded to the nearest whole second
C23_RoundedTimestamp ==
  \A r \in Filtered :
    \A i \in 1..Len(io[r].datetime) :
      io[r].datetime[i] =
        DateTimePlus(DateTimeOfInts(file.date_time \div 100,
                                    (file.date_time % 100) * 3600),
                     RoundSeconds(OffsetsOf(file)[i]))

\* ------------------------------------------------------------------------
\* The missing-value rule as implemented
\* ------------------------------------------------------------------------
\* C24: a float of the file, or a double after its coercion to float, comes
\* out as the missing value iff it is greater than 1.0e8; a value below
\* -1.0e8 comes out as it is, and so does every value of an integer variable
C24_OneSidedSubstitution ==
  \A r \in DOMAIN database :
    database[r].status = "ok" =>
      \A k \in 1..Len(database[r].recs) :
        LET rec == database[r].recs[k]
            id == VarId(file, FileName(rec))
        IN (id # 0 /\ StrFind(rec.variable, S_time) # 0
                   /\ StrFind(rec.variable, S_date) # 0)
             => \A ii \in 1..Len(rec.data) :
                  LET raw == file.vars[id].data[io[r].index[ii] + 1]
                      x == AsFloat(file.vars[id], raw)
                  IN /\ file.vars[id].type \in {"NC_FLOAT", "NC_DOUBLE"} =>
                          /\ x > missingthreshold => rec.data[ii] = AnyFloat(fmiss)
                          /\ x <= missingthreshold => rec.data[ii] = AnyFloat(x)
                          /\ rec.data[ii] = AnyFloat(fmiss) => x > missingthreshold
                     /\ file.vars[id].type = "NC_INT" =>
                          rec.data[ii] = AnyInt(raw)

\* one rank holds a float above 1.0e8 replaced, a float below -1.0e8 kept, a
\* double that is above 1.0e8 only before its coercion kept, and an integer
\* above 1.0e8 kept
C24_Witness ==
  \E r \in DOMAIN database :
    /\ database[r].status = "ok"
    /\ \E k \in 1..Len(database[r].recs) :
         /\ database[r].recs[k].variable = S_z
         /\ Len(database[r].recs[k].data) >= 2
         /\ database[r].recs[k].data[1] = AnyFloat(fmiss)
         /\ database[r].recs[k].data[2] = AnyFloat(-200000000)
    /\ \E k \in 1..Len(database[r].recs) :
         /\ database[r].recs[k].variable = S_y
         /\ database[r].recs[k].data[1] = AnyFloat(100000000)
         /\ database[r].recs[k].data[2] = AnyFloat(fmiss)
    /\ \E k \in 1..Len(database[r].recs) :
         /\ database[r].recs[k].variable = S_x
         /\ database[r].recs[k].data[1] = AnyInt(300000000)

\* ------------------------------------------------------------------------
\* Files of the old layout
\* ------------------------------------------------------------------------
\* the file has no nrecs dimension
IsLegacy(f) == DimId(f, "nrecs") = -1

\* the (variable, group) pair a file name is listed under
ListedAs(name) ==
  LET Spos == StrFind(name, S_at)
  IN <<SubstrTo(name, Spos),
       IF Spos # -1 THEN SubstrFrom(name, Spos + 1) ELSE <<>>>>

\* the ranks whose read-mode open of the file reached its end
Opened == {r \in distributed : io[r].status = "ok"}

\* C25 as stated: in a file without nrecs every variable of one dimension,
\* nobs, is in the variable list, and is in the container with nlocs values
C25_LegacyVariablesLoaded ==
  \A r \in Opened :
    IsLegacy(file) =>
      \A k \in 1..Len(file.vars) :
        (/\ Len(file.vars[k].dimids) = 1
         /\ file.vars[k].dimids[1] = DimId(file, "nobs")) =>
          LET key == ListedAs(file.vars[k].name)
              group == IF Len(key[2]) > 0 THEN key[2] ELSE S_GroupUndefined
              p == RecPosFrom(database[r].recs, group, key[1], 1)
          IN /\ \E j \in 1..Len(io[r].vname_group_) :
                  io[r].vname_group_[j] = key
             /\ database[r].status = "ok"
             /\ p # 0
             /\ Len(database[r].recs[p].data) = io[r].nlocs

\* nobs and the number of variables of a file of the old layout
LegacyNobs(f) == DimLen(f, DimId(f, "nobs"))

LegacyNvars(f) ==
  IF DimId(f, "nchans") # -1 THEN DimLen(f, DimId(f, "nchans")) ELSE 1

\* C26 as stated: the read-mode open of a file without nrecs whose nobs is not
\* a multiple of nvars fails before a distribution is built or a variable is
\* read
C26_NonDivisibleRejected ==
  \A r \in Loaded :
    (/\ io[r].fmode_ = "r"
     /\ file.present
     /\ IsLegacy(file)
     /\ LegacyNobs(file) % LegacyNvars(file) # 0) =>
       /\ io[r].status = "abort"
       /\ r \notin distributed
       /\ io[r].index = <<>>
       /\ database[r].recs = <<>>

\* ------------------------------------------------------------------------
\* ObsIo: the dimensions attached to the variables
\* ------------------------------------------------------------------------
\* the variables of dims_attached_to_vars_, in the order of the map, and a
\* name the map never holds
VarNames == <<"u", "v">>

AskedNames == Range(VarNames) \cup {"w"}

\* the dimension lists a variable can have; the empty one is a variable no
\* dimension is attached to
DimLists ==
  {<<>>, <<"nlocs">>, <<"nchans">>, <<"nlocs", "nchans">>,
   <<"nchans", "nlocs">>}

\* the maps dims_attached_to_vars_ can be
VarDimMaps == UNION {[S -> DimLists] : S \in SUBSET Range(VarNames)}

\* what the read of element 0 of an empty dimension list can do: the name
\* found there is "nlocs", it is something else, or the process dies
EmptyListReads == {"nlocs", "other", "crash"}

\* the loop of ObsIo::isVarDimByNlocs from entry k on: ret is isDimByNlocs,
\* pastEnd tells whether second[0] was read on an empty list
RECURSIVE isVarDimByNlocsFrom(_, _, _, _, _)
isVarDimByNlocsFrom(map, varName, k, acc, ub) ==
  IF k > Len(VarNames) \/ acc.status # "ok" THEN acc
  ELSE IF VarNames[k] \notin DOMAIN map \/ VarNames[k] # varName
  THEN isVarDimByNlocsFrom(map, varName, k + 1, acc, ub)
  ELSE LET second == map[VarNames[k]]
       IN IF second = <<>>
          THEN isVarDimByNlocsFrom(map, varName, k + 1,
                 [status |-> IF ub = "crash" THEN "abort" ELSE "ok",
                  ret |-> acc.ret \/ ub = "nlocs", pastEnd |-> TRUE], ub)
          ELSE isVarDimByNlocsFrom(map, varName, k + 1,
                 [acc EXCEPT !.ret = @ \/ second[1] = "nlocs"], ub)

\* ObsIo::isVarDimByNlocs(varName)
isVarDimByNlocs(map, varName, ub) ==
  isVarDimByNlocsFrom(map, varName, 1,
                      [status |-> "ok", ret |-> FALSE, pastEnd |-> FALSE], ub)

InitObsIo ==
  /\ DistIdle
  /\ StoreIdle
  /\ IngestIdle
  /\ SpaceIdle
  /\ dims_attached_to_vars_ \in VarDimMaps
  /\ isDimByNlocs = [op |-> "none"]

isVarDimByNlocsCall(varName) ==
  /\ \E ub \in (IF varName \in DOMAIN dims_attached_to_vars_
                   /\ dims_attached_to_vars_[varName] = <<>>
                THEN EmptyListReads ELSE {"other"}) :
       isDimByNlocs' =
         [op |-> "isVarDimByNlocs", varName |-> varName] @@
         isVarDimByNlocs(dims_attached_to_vars_, varName, ub)
  /\ UNCHANGED <<dims_attached_to_vars_, distVars, storeVars, ingestVars,
                 spaceVars>>

NextObsIo == \E varName \in AskedNames : isVarDimByNlocsCall(varName)

SpecObsIo == InitObsIo /\ [][NextObsIo]_vars

\* C27 as stated: isVarDimByNlocs(varName) is true iff varName has an entry
\* whose first dimension is "nlocs"; it is false for a name without entry and
\* for a variable with an empty dimension list, and it never reads past the
\* end of a dimension list
C27_IsVarDimByNlocs ==
  isDimByNlocs.op = "isVarDimByNlocs" =>
    LET v == isDimByNlocs.varName
    IN /\ isDimByNlocs.status = "ok"
       /\ ~isDimByNlocs.pastEnd
       /\ isDimByNlocs.ret <=>
            (/\ v \in DOMAIN dims_attached_to_vars_
             /\ dims_attached_to_vars_[v] # <<>>
             /\ dims_attached_to_vars_[v][1] = "nlocs")

\* ------------------------------------------------------------------------
\* What the load puts into the container
\* ------------------------------------------------------------------------
\* the value of file variable v at global index i as a container element:
\* coerced to float where it is a double, the missing value where it is above
\* missingthreshold
Projected(v, i) ==
  IF v.type = "NC_INT" THEN AnyInt(v.data[i + 1])
  ELSE LET x == AsFloat(v, v.data[i + 1])
       IN AnyFloat(IF x > missingthreshold THEN fmiss ELSE x)

\* C28 as stated: for every entry of the variable list that names a variable
\* of the file, the record in the container holds at every local position ii
\* the file's value at global index index()[ii], whatever the name, names
\* starting with "time" or "date" included
C28_ProjectionOnLoad ==
  \A r \in Opened :
    database[r].status = "ok" =>
      \A j \in 1..Len(io[r].vname_group_) :
        LET variable == io[r].vname_group_[j][1]
            g == io[r].vname_group_[j][2]
            name == IF Len(g) > 0 THEN variable \o S_at \o g ELSE variable
            group == IF Len(g) > 0 THEN g ELSE S_GroupUndefined
            id == VarId(file, name)
            p == RecPosFrom(database[r].recs, group, variable, 1)
        IN (id # 0 /\ file.vars[id].type \in {"NC_INT", "NC_FLOAT", "NC_DOUBLE"})
             => /\ p # 0
                /\ database[r].recs[p].data =
                     [ii \in 1..Len(io[r].index) |->
                        Projected(file.vars[id], io[r].index[ii])]

\* ------------------------------------------------------------------------
\* The sizes at the end of the read-mode constructor
\* ------------------------------------------------------------------------
\* the ranks whose constructor ran the filter loop and the erases: the file
\* has date_time and a time variable, and reading it did not end the process
FilterRan ==
  {r \in distributed :
     /\ file.hasDT
     /\ ~BackendFailure(r)
     /\ ~(io[r].overrun = "crash" /\ Len(OffsetsOf(file)) > io[r].nfvlen)}

\* C29: for a file with date_time the ASSERT after the erase loop holds and
\* the constructor ends with date_, time_ and the distribution all of size
\* nlocs; every index outside the window is erased once and no other is
C29_SizesAgree ==
  \A r \in FilterRan :
    /\ io[r].status = "ok"
    /\ Len(io[r].date_) = Len(io[r].index)
    /\ Len(io[r].time_) = Len(io[r].index)
    /\ io[r].nlocs = Len(io[r].index)
    /\ NoDup(io[r].to_be_removed)
    /\ Range(io[r].to_be_removed) \cap Range(io[r].index) = {}
    /\ Range(io[r].to_be_removed) \cup Range(io[r].index) = OwnedBefore(r)

\* a rank with two indices erased and one kept
C29_Witness ==
  \E r \in FilterRan :
    /\ Len(io[r].to_be_removed) = 2
    /\ io[r].nlocs = 1
    /\ Len(io[r].date_) = 1

\* ------------------------------------------------------------------------
\* The size assertions of ReadVar_any during the load
\* ------------------------------------------------------------------------
\* C30 as stated: every ReadVar_any call CreateFromFile makes for an entry of
\* the variable list finds date_ of the size of the distribution when the
\* name starts with "date", and time_ of that size when it starts with "time"
C30_ReadAssertionsHold ==
  \A r \in Opened :
    \A j \in 1..Len(io[r].vname_group_) :
      LET variable == io[r].vname_group_[j][1]
          g == io[r].vname_group_[j][2]
          name == IF Len(g) > 0 THEN variable \o S_at \o g ELSE variable
      IN LoadVars(file, io[r], j - 1).status = "ok" =>
           /\ StrFind(name, S_date) = 0 =>
                Len(io[r].date_) = Len(io[r].index)
           /\ (StrFind(name, S_date) # 0 /\ StrFind(name, S_time) = 0) =>
                Len(io[r].time_) = Len(io[r].index)

====
